---- MODULE Spec2Model ----
(***************************************************************************)
(* Model of the Nihil command-line front-end: the error taxonomy           *)
(* (nihilError.py), the engine client (nihilManager.py), diagnostics       *)
(* (nihilDoctor.py), the history logger (nihilHistory.py) and the          *)
(* controller with its entry point (nihilController.py, nihilHelp.py).     *)
(***************************************************************************)
EXTENDS Integers, Sequences, FiniteSets, TLC

(***************************************************************************)
(* Bounds of the model.                                                    *)
(***************************************************************************)
MaxTargets == 2        \* longest list of names given to remove / uninstall
MaxInvocations == 2    \* invocations of main() in one behaviour of SpecHist
MaxListLen == 2        \* longest engine listing given to list_containers / list_images
MaxTextLen == 3        \* longest text given to the formatter

Names == {"a", "b"}    \* container names known to the model
NameOrder == <<"a", "b">>  \* order in which the engine lists its containers

None == "None"         \* Python's None

RECURSIVE SeqsUpTo(_, _)
SeqsUpTo(S, n) ==
  IF n = 0 THEN {<<>>}
  ELSE LET shorter == SeqsUpTo(S, n - 1)
       IN shorter \cup {Append(s, x) : s \in {t \in shorter : Len(t) = n - 1}, x \in S}

(***************************************************************************)
(* Strings that the code inspects character by character are sequences of  *)
(* one-character strings.                                                  *)
(***************************************************************************)
MARKER == <<"n", "i", "h", "i", "l">>

\* Python's `needle in text` on strings
Contains(needle, text) ==
  \E k \in 0..(Len(text) - Len(needle)) :
    \A j \in 1..Len(needle) : text[k + j] = needle[j]

\* NihilManager.DEFAULT_IMAGE
DEFAULT_IMAGE == "ghcr.io/thenullpigeons/nihil-images:latest"

\* an image of the engine that does not belong to the project
UBUNTU_IMAGE == "ubuntu:latest"

\* the reference the "ad" variant stands for
AD_IMAGE == "ghcr.io/thenullpigeons/nihil-images-ad:latest"

\* the characters of the strings the code searches for the marker
Chars(s) ==
  CASE s = DEFAULT_IMAGE ->
         <<"g","h","c","r",".","i","o","/","t","h","e","n","u","l","l","p","i","g","e","o","n","s","/",
           "n","i","h","i","l","-","i","m","a","g","e","s",":","l","a","t","e","s","t">>
    [] s = AD_IMAGE ->
         <<"g","h","c","r",".","i","o","/","t","h","e","n","u","l","l","p","i","g","e","o","n","s","/",
           "n","i","h","i","l","-","i","m","a","g","e","s","-","a","d",":","l","a","t","e","s","t">>
    [] s = UBUNTU_IMAGE -> <<"u","b","u","n","t","u",":","l","a","t","e","s","t">>
    [] s = "nihil-images:latest" ->
         <<"n","i","h","i","l","-","i","m","a","g","e","s",":","l","a","t","e","s","t">>
    [] s = "nihil" -> <<"n","i","h","i","l">>
    [] s = "my-nihil:1" -> <<"m","y","-","n","i","h","i","l",":","1">>
    [] s = "nihi:l" -> <<"n","i","h","i",":","l">>
    [] s = "" -> <<>>

(***************************************************************************)
(* Error taxonomy (nihilError.py).  An optional string is NONE when it is  *)
(* Python's None; a message is the sequence of the pieces of its f-string. *)
(***************************************************************************)
NONE == <<"<None>">>   \* None where a string is expected
NoCode == -1           \* no exit_code (no error object, or argument not passed)

\* Python truthiness of an optional string: None and "" are falsy
Truthy(s) == s # NONE /\ s # <<>>

\* Python's `a or b` on optional strings
Or(a, b) == IF Truthy(a) THEN a ELSE b

\* NihilError.__str__ with the hint always appended
Str_always_hint(e) == e.message \o <<"\nHint: ">> \o e.hint

\* NihilError.__str__: the message, followed by the hint if there is one
Str(e) == IF Truthy(e.hint) THEN e.message \o <<"\nHint: ">> \o e.hint ELSE e.message

\* @dataclass NihilError(message, exit_code=1, hint=None)
NihilError(cls, message, exit_code, hint) ==
  [cls |-> cls, message |-> message, exit_code |-> exit_code, hint |-> hint]

NihilErrorBase(message, exit_code, hint) ==
  NihilError("NihilError", message, IF exit_code = NoCode THEN 1 ELSE exit_code, hint)

DockerUnavailable(message, hint) ==
  NihilError("DockerUnavailable", message, 2,
             Or(hint, <<"Verifie que Docker tourne et que ton utilisateur a acces au socket Docker.">>))

ImageNotFound(image, message, hint) ==
  NihilError("ImageNotFound", Or(message, <<"Image introuvable: '", image, "'">>), 3,
             Or(hint, <<"Essaie nihil info ou verifie ta connexion au registry.">>))

ImagePullFailed(image, message, hint) ==
  NihilError("ImagePullFailed", Or(message, <<"Impossible de pull l'image: '", image, "'">>), 3,
             Or(hint, <<"Verifie l'acces au registry (auth, reseau) et le nom d'image.">>))

ContainerNotFound(name, message) ==
  NihilError("ContainerNotFound", Or(message, <<"Conteneur introuvable: '", name, "'">>), 4, NONE)

ContainerNotRunning(name, message) ==
  NihilError("ContainerNotRunning",
             Or(message, <<"Le conteneur '", name, "' n'est pas en cours d'execution.">>), 5, NONE)

ContainerCreateFailed(name, message, hint) ==
  NihilError("ContainerCreateFailed", Or(message, <<"Echec de creation du conteneur: '", name, "'">>), 6, hint)

ContainerStartFailed(name, message) ==
  NihilError("ContainerStartFailed", Or(message, <<"Echec du demarrage du conteneur: '", name, "'">>), 7, NONE)

ContainerStopFailed(name, message) ==
  NihilError("ContainerStopFailed", Or(message, <<"Echec de l'arret du conteneur: '", name, "'">>), 8, NONE)

ContainerRemoveFailed(name, message) ==
  NihilError("ContainerRemoveFailed", Or(message, <<"Echec de suppression du conteneur: '", name, "'">>), 9, NONE)

\* the classes nihilError.py defines
DefinedClasses ==
  {"NihilError", "DockerUnavailable", "ImageNotFound", "ImagePullFailed", "ContainerNotFound",
   "ContainerNotRunning", "ContainerCreateFailed", "ContainerStartFailed", "ContainerStopFailed",
   "ContainerRemoveFailed"}

\* the classes the rest of the repository imports from nihilError
ImportedClasses == DefinedClasses \cup {"ImageRemoveFailed"}

\* no error object: the value of a variable that holds no NihilError
NoError == [cls |-> "none", message |-> <<>>, exit_code |-> NoCode, hint |-> NONE]

\* what evaluating `cls(...)` leaves instead of an error object when Python refuses it
PyFailure(what) == [cls |-> what, message |-> <<>>, exit_code |-> NoCode, hint |-> NONE]

\* the keyword arguments a caller may pass; subject is the name= / image= argument
CtorArgs ==
  [subject : {"x", "y"}, message : {NONE, <<>>, <<"m">>}, hint : {NONE, <<>>, <<"h">>},
   exit_code : {NoCode, 42}]

\* `from nihil.nihilError import cls` followed by `cls(**a)`
Instantiate(cls, a) ==
  IF cls \notin DefinedClasses THEN PyFailure("ImportError")
  ELSE IF cls = "NihilError" THEN
         IF a.message = NONE THEN PyFailure("TypeError")
         ELSE NihilErrorBase(a.message, a.exit_code, a.hint)
  ELSE IF a.exit_code # NoCode THEN PyFailure("TypeError")
  ELSE CASE cls = "DockerUnavailable" ->
              IF a.message = NONE THEN PyFailure("TypeError") ELSE DockerUnavailable(a.message, a.hint)
         [] cls = "ImageNotFound" -> ImageNotFound(a.subject, a.message, a.hint)
         [] cls = "ImagePullFailed" -> ImagePullFailed(a.subject, a.message, a.hint)
         [] cls = "ContainerNotFound" ->
              IF a.hint # NONE THEN PyFailure("TypeError") ELSE ContainerNotFound(a.subject, a.message)
         [] cls = "ContainerNotRunning" ->
              IF a.hint # NONE THEN PyFailure("TypeError") ELSE ContainerNotRunning(a.subject, a.message)
         [] cls = "ContainerCreateFailed" -> ContainerCreateFailed(a.subject, a.message, a.hint)
         [] cls = "ContainerStartFailed" ->
              IF a.hint # NONE THEN PyFailure("TypeError") ELSE ContainerStartFailed(a.subject, a.message)
         [] cls = "ContainerStopFailed" ->
              IF a.hint # NONE THEN PyFailure("TypeError") ELSE ContainerStopFailed(a.subject, a.message)
         [] cls = "ContainerRemoveFailed" ->
              IF a.hint # NONE THEN PyFailure("TypeError") ELSE ContainerRemoveFailed(a.subject, a.message)

(***************************************************************************)
(* Command line (nihilHelp.py).                                            *)
(***************************************************************************)
Commands ==
  {"info", "images", "version", "doctor", "start", "stop", "remove", "install", "uninstall",
   "exec", "completion"}

ImageChoices == {"base", "ad", "active-directory", "web", "crypto"}

ImageOptions == {"--image=base", "--image=ad"}

OptionTokens == {"--force", "--privileged", "--no-shell", "--log", "--help", "--version"} \cup ImageOptions

AllowedOptions(command) ==
  CASE command = "start" -> {"--privileged", "--no-shell", "--log"} \cup ImageOptions
    [] command \in {"remove", "uninstall"} -> {"--force"}
    [] OTHER -> {}

\* argparse leaves through SystemExit(code) instead of returning a namespace
ParseExit(code) ==
  [exit |-> code, command |-> None, names |-> <<>>, force |-> FALSE, privileged |-> FALSE,
   no_shell |-> FALSE, log |-> FALSE, image |-> None]

\* create_parser().parse_args(argv)
parse_args(av) ==
  IF av = <<>> THEN [ParseExit(NoCode) EXCEPT !.command = None]
  ELSE IF av[1] \in {"--help", "--version"} THEN ParseExit(0)
  ELSE IF av[1] \notin Commands THEN ParseExit(2)
  ELSE
    LET command == av[1]
        rest == Tail(av)
        opts == {rest[k] : k \in {j \in 1..Len(rest) : rest[j] \in OptionTokens}}
        pos == SelectSeq(rest, LAMBDA t : t \notin OptionTokens)
        arityOk ==
          CASE command \in {"start", "stop"} -> Len(pos) = 1
            [] command = "exec" -> Len(pos) >= 1
            [] command \in {"remove", "uninstall"} -> TRUE
            [] command = "install" -> Len(pos) = 0 \/ (Len(pos) = 1 /\ pos[1] \in ImageChoices)
            [] command = "completion" -> Len(pos) = 1 /\ pos[1] \in {"bash", "zsh"}
            [] OTHER -> Len(pos) = 0
    IN IF "--help" \in opts THEN ParseExit(0)
       ELSE IF ~(opts \subseteq AllowedOptions(command)) \/ ~arityOk THEN ParseExit(2)
       ELSE [exit |-> NoCode,
             command |-> command,
             names |-> pos,
             force |-> "--force" \in opts,
             privileged |-> "--privileged" \in opts,
             no_shell |-> "--no-shell" \in opts,
             log |-> "--log" \in opts,
             image |-> IF command = "install" THEN (IF pos = <<>> THEN None ELSE pos[1])
                       ELSE IF "--image=base" \in opts THEN "base"
                       ELSE IF "--image=ad" \in opts THEN "ad"
                       ELSE None]

\* the argument vectors the model invokes the program with
TargetLists == SeqsUpTo(Names, MaxTargets)

ForceOpts == {<<>>, <<"--force">>}

RemoveArgvs == {<<"remove">> \o t \o f : t \in TargetLists, f \in ForceOpts}

UninstallItems == {"nihil", UBUNTU_IMAGE}

\* --force goes with the selection and with one image; the longer lists go without it
UninstallArgvs ==
  {<<"uninstall">> \o t : t \in SeqsUpTo(UninstallItems, MaxTargets)}
  \cup {<<"uninstall">> \o t \o <<"--force">> : t \in SeqsUpTo(UninstallItems, 1)}

StartOpts ==
  {<<>>, <<"--image=base">>, <<"--image=base", "--no-shell">>, <<"--privileged", "--image=ad">>,
   <<"--image=base", "--log">>, <<"--privileged">>, <<"--privileged", "--image=base", "--no-shell">>}

StartArgvs == {<<"start", n>> \o o : n \in Names, o \in StartOpts}

OtherArgvs ==
  {<<>>, <<"version">>, <<"--version">>, <<"--help">>, <<"doctor">>, <<"info">>, <<"images">>,
   <<"stop">>, <<"frobnicate">>, <<"install">>, <<"install", "base">>, <<"install", "ad">>,
   <<"completion", "bash">>}
  \cup {<<"stop", n>> : n \in Names} \cup {<<"exec", n>> : n \in Names}

Argvs == RemoveArgvs \cup UninstallArgvs \cup StartArgvs \cup OtherArgvs

(***************************************************************************)
(* History logger (nihilHistory.py).  A line is the sequence of the pieces *)
(* the code concatenates.                                                  *)
(***************************************************************************)
\* " ".join(av)
RECURSIVE Join(_)
Join(av) ==
  IF av = <<>> THEN <<>>
  ELSE IF Len(av) = 1 THEN av
  ELSE <<av[1], " ">> \o Join(Tail(av))

\* command_str = "nihil " + " ".join(argv)
HistoryLine(av) == <<"nihil ">> \o Join(av)

(***************************************************************************)
(* State.                                                                  *)
(***************************************************************************)
VARIABLES
  containers,   \* engine: container name -> [status, image, privileged]
  images,       \* engine: references of the images present locally
  history,      \* the lines of history.log
  log_failed,   \* a history write has failed
  pc,           \* position of the invocation inside main()
  exit_code,    \* main(): exit_code, NoCode while not yet computed
  exc,          \* the exception propagating up the stack
  raised,       \* the NihilError that left the connection step or a handler, as created
  interrupted,  \* the position at which the user's interrupt arrived, "no" if none
  targets,      \* container_names / images: the list a bulk loop walks
  idx,          \* index of the loop's current target
  errors,       \* the loop's error counter
  candidates,   \* the listing an interactive selection offers
  selected,     \* selected_containers of the interactive selection
  calls,        \* the requests issued to the engine by this invocation, in order
  argv,         \* sys.argv[1:]
  args,         \* parsed_args
  invocations,  \* number of invocations of main() so far
  invoked,      \* the argument vectors of these invocations, in order
  exit_codes,   \* the exit codes of the invocations that have ended, in order
  image_arg,    \* image_arg: the image variant the handler works on
  cur,          \* the name of the container object the handler holds
  doc,          \* NihilDoctor.run: its results, exit_code and report
  answers,      \* what input() gave at the confirmation prompts, in order, as <<prompt, answer>>
  failures,     \* the pull, create, start, stop and remove requests the engine refused, in order
  returncode,   \* exit status of the last command run in a container, NoCode if none was run
  err,          \* the object built by the last error constructor call
  req,          \* the class and arguments of that call
  err_text,     \* str() of that object
  fmt,          \* the NihilFormatter calls made on their own: arguments and results
  peer,         \* a second invocation of start that runs at the same time: its arguments,
                \* position, engine requests and exit code
  listing,      \* what the engine lists to list_containers / list_images
  listed,       \* what list_containers / list_images returned
  mreq,         \* the NihilManager method called on its own, its arguments and engine outcomes
  mres          \* what that call returned or raised, the requests it issued, the config it sent

vars ==
  <<containers, images, history, log_failed, pc, exit_code, exc, raised, interrupted, targets,
    idx, errors, candidates, selected, calls, argv, args, invocations, invoked, exit_codes,
    image_arg, cur, doc, answers, failures, returncode, err, req, err_text, fmt, peer, listing, listed, mreq,
    mres>>

engineVars == <<containers, images>>
loopVars == <<targets, idx, errors, candidates, selected>>
invVars == <<argv, args, invocations, invoked, exit_codes>>
auxVars == <<image_arg, cur, doc, answers, failures, returncode>>
sideVars == <<err, req, err_text, fmt, peer, listing, listed, mreq, mres>>
histVars == <<history, log_failed>>

(***************************************************************************)
(* Engine: containers and images as the docker daemon holds them.          *)
(***************************************************************************)
Absent == [status |-> "absent", image |-> None, privileged |-> FALSE]

InitContainerStates ==
  {Absent} \cup
  {[status |-> st, image |-> im, privileged |-> FALSE] :
     st \in {"running", "exited"}, im \in {DEFAULT_IMAGE, UBUNTU_IMAGE}}

EngineOutcomes == {"ok", "apierror"}

\* exceptions
NoExc == [type |-> "none", err |-> NoError, code |-> NoCode]
KeyboardInterrupt == [type |-> "KeyboardInterrupt", err |-> NoError, code |-> NoCode]
SystemExit(code) == [type |-> "SystemExit", err |-> NoError, code |-> code]
PyException(what) == [type |-> "Exception", err |-> PyFailure(what), code |-> NoCode]
Domain(e) == [type |-> "NihilError", err |-> e, code |-> NoCode]

(***************************************************************************)
(* Engine client (nihilManager.py): each method takes the outcome o of its *)
(* engine request and returns the engine state it leaves and the exception *)
(* it raises.                                                              *)
(***************************************************************************)
\* NihilManager.__init__: docker.from_env() and ping()
manager_init(o) ==
  IF o = "ok" THEN NoExc
  ELSE Domain(DockerUnavailable(<<"Impossible de se connecter a Docker: ", "e">>, NONE))

\* NihilManager.get_container: only NotFound becomes None
get_container(cs, n, o) ==
  IF o = "ok" THEN [found |-> cs[n].status # "absent", exc |-> NoExc]
  ELSE [found |-> FALSE, exc |-> PyException("APIError")]

\* NihilManager.start_container
start_container(cs, n, o) ==
  IF o = "ok" THEN [containers |-> [cs EXCEPT ![n].status = "running"], exc |-> NoExc]
  ELSE [containers |-> cs, exc |-> Domain(ContainerStartFailed(n, <<"Erreur start: ", "e">>))]

\* NihilManager.stop_container
stop_container(cs, n, o) ==
  IF o = "ok" THEN [containers |-> [cs EXCEPT ![n].status = "exited"], exc |-> NoExc]
  ELSE [containers |-> cs, exc |-> Domain(ContainerStopFailed(n, <<"Erreur stop: ", "e">>))]

\* NihilManager.remove_container; the engine refuses to remove a running container unless forced
remove_container(cs, n, force, o) ==
  IF o = "ok" /\ (cs[n].status # "running" \/ force)
  THEN [containers |-> [cs EXCEPT ![n] = Absent], exc |-> NoExc]
  ELSE [containers |-> cs, exc |-> Domain(ContainerRemoveFailed(n, <<"Erreur remove: ", "e">>))]

\* ensure_image_exists that pulls without looking for the image first
ensure_image_exists_always_pulls(imgs, image, og, op) ==
  LET ref == IF image = None THEN DEFAULT_IMAGE ELSE image
  IN IF op = "ok"
     THEN [images |-> imgs \cup {ref}, exc |-> NoExc, ret |-> "True",
           calls |-> <<<<"pull", ref>>>>]
     ELSE [images |-> imgs, ret |-> "raised",
           exc |-> Domain(ImagePullFailed(ref, <<"Echec du pull de l'image '", ref, "': ", "e">>, NONE)),
           calls |-> <<<<"pull", ref>>>>]

\* NihilManager.ensure_image_exists: og and op are the outcomes of images.get and images.pull;
\* ret is what the method returns, "raised" when it raises instead
ensure_image_exists(imgs, image, og, op) ==
  LET ref == IF image = None THEN DEFAULT_IMAGE ELSE image
  IN IF og # "ok"
     THEN [images |-> imgs, exc |-> PyException("APIError"), ret |-> "raised",
           calls |-> <<<<"image_get", ref>>>>]
     ELSE IF ref \in imgs
     THEN [images |-> imgs, exc |-> NoExc, ret |-> "True", calls |-> <<<<"image_get", ref>>>>]
     ELSE IF op = "ok"
     THEN [images |-> imgs \cup {ref}, exc |-> NoExc, ret |-> "True",
           calls |-> <<<<"image_get", ref>>, <<"pull", ref>>>>]
     ELSE [images |-> imgs, ret |-> "raised",
           exc |-> Domain(ImagePullFailed(ref, <<"Echec du pull de l'image '", ref, "': ", "e">>, NONE)),
           calls |-> <<<<"image_get", ref>>, <<"pull", ref>>>>]

\* a string argument that Python takes as true
Given(s) == s # None /\ s # ""

\* the `volumes` argument: None, or a dict as the set of its entries
NoVolumes == [none |-> TRUE, entries |-> {}]

\* the value create_container stores under the workspace path
WorkspaceVolume(workspace) == [host |-> workspace, bind |-> "/workspace", mode |-> "rw"]

\* no request was built
NoConfig == [keys |-> {}]

\* container_config whose workspace volume is mounted read-only
container_config_workspace_ro(name, image, privileged, volumes, network_mode, workspace) ==
  LET dict == IF volumes.none THEN {} ELSE volumes.entries
      vols == IF Given(workspace)
              THEN {e \in dict : e.host # workspace}
                     \cup {[host |-> workspace, bind |-> "/workspace", mode |-> "ro"]}
              ELSE dict
  IN [keys |-> {"name", "image", "detach", "tty", "stdin_open", "privileged"}
                 \cup (IF vols # {} THEN {"volumes"} ELSE {})
                 \cup (IF Given(network_mode) THEN {"network_mode"} ELSE {}),
      name |-> name,
      image |-> IF image = None THEN DEFAULT_IMAGE ELSE image,
      detach |-> TRUE,
      tty |-> TRUE,
      stdin_open |-> TRUE,
      privileged |-> privileged,
      volumes |-> vols,
      network_mode |-> IF Given(network_mode) THEN network_mode ELSE None]

\* NihilManager.create_container: container_config, the keyword arguments of
\* client.containers.create; keys are the keys the dict holds, a field whose key is missing
\* is not sent
container_config(name, image, privileged, volumes, network_mode, workspace) ==
  LET dict == IF volumes.none THEN {} ELSE volumes.entries
      vols == IF Given(workspace)
              THEN {e \in dict : e.host # workspace} \cup {WorkspaceVolume(workspace)}
              ELSE dict
  IN [keys |-> {"name", "image", "detach", "tty", "stdin_open", "privileged"}
                 \cup (IF vols # {} THEN {"volumes"} ELSE {})
                 \cup (IF Given(network_mode) THEN {"network_mode"} ELSE {}),
      name |-> name,
      image |-> IF image = None THEN DEFAULT_IMAGE ELSE image,
      detach |-> TRUE,
      tty |-> TRUE,
      stdin_open |-> TRUE,
      privileged |-> privileged,
      volumes |-> vols,
      network_mode |-> IF Given(network_mode) THEN network_mode ELSE None]

\* create_container that sends the create request whatever ensure_image_exists did
create_container_without_image(cs, imgs, name, image, privileged, volumes, network_mode, workspace, og, op, oc) ==
  LET ens == ensure_image_exists(imgs, image, og, op)
      cfg == container_config(name, image, privileged, volumes, network_mode, workspace)
  IN IF oc = "ok" /\ cs[name].status = "absent"
     THEN [containers |-> [cs EXCEPT ![name] = [status |-> "created", image |-> cfg.image,
                                               privileged |-> cfg.privileged]],
           images |-> ens.images, exc |-> NoExc, config |-> cfg,
           calls |-> Append(ens.calls, <<"create", name>>)]
     ELSE [containers |-> cs, images |-> ens.images, config |-> cfg,
           exc |-> Domain(ContainerCreateFailed(name, <<"Erreur creation conteneur: ", "e">>, NONE)),
           calls |-> Append(ens.calls, <<"create", name>>)]

\* NihilManager.create_container: the image first, then the engine's create request, which the
\* engine rejects when the name is taken; config is the request sent, NoConfig if none was
create_container(cs, imgs, name, image, privileged, volumes, network_mode, workspace, og, op, oc) ==
  LET ens == ensure_image_exists(imgs, image, og, op)
      cfg == container_config(name, image, privileged, volumes, network_mode, workspace)
  IN IF ens.exc # NoExc
     THEN [containers |-> cs, images |-> ens.images, exc |-> ens.exc, config |-> NoConfig,
           calls |-> ens.calls]
     ELSE IF oc = "ok" /\ cs[name].status = "absent"
     THEN [containers |-> [cs EXCEPT ![name] = [status |-> "created", image |-> cfg.image,
                                               privileged |-> cfg.privileged]],
           images |-> ens.images, exc |-> NoExc, config |-> cfg,
           calls |-> Append(ens.calls, <<"create", name>>)]
     ELSE [containers |-> cs, images |-> ens.images, config |-> cfg,
           exc |-> Domain(ContainerCreateFailed(name, <<"Erreur creation conteneur: ", "e">>, NONE)),
           calls |-> Append(ens.calls, <<"create", name>>)]

\* NihilManager.AVAILABLE_IMAGES.get(variant): the reference a variant stands for, None if unknown
AVAILABLE_IMAGES(variant) ==
  CASE variant = "base" -> DEFAULT_IMAGE
    [] variant \in {"ad", "active-directory"} -> AD_IMAGE
    [] OTHER -> None

\* the variants offered by the interactive selections
Variants == <<"base", "ad">>

\* NihilManager.remove_image: the engine refuses an image it does not hold, or one a container
\* uses unless forced
remove_image(imgs, cs, image, force, o) ==
  IF /\ o = "ok"
     /\ image \in imgs
     /\ (force \/ \A n \in Names : cs[n].image # image)
  THEN [images |-> imgs \ {image}, exc |-> NoExc]
  ELSE [images |-> imgs, exc |-> PyException("ImageRemoveFailed")]

\* HasMarkerTag with the marker test dropped: any tagged image passes
HasMarkerTag_AnyTag(tags) == tags # <<>>

\* `any("nihil" in tag for tag in tags)` guarded by `tags and`
HasMarkerTag(tags) ==
  tags # <<>> /\ \E k \in 1..Len(tags) : Contains(MARKER, Chars(tags[k]))

\* NihilManager.list_containers: objs is what client.containers.list(all=all) returns; an object
\* is broken when reading its image raises
list_containers(objs, o) ==
  IF o = "ok" THEN SelectSeq(objs, LAMBDA c : ~c.broken /\ HasMarkerTag(c.tags))
  ELSE <<>>

\* NihilManager.list_images: objs is what client.images.list() returns
list_images(objs, o) ==
  IF o = "ok" THEN SelectSeq(objs, LAMBDA img : HasMarkerTag(img.tags))
  ELSE <<>>

\* the container objects the engine lists, in its order; c.image.tags is empty once the image is gone
RECURSIVE ContainerObjects(_, _, _)
ContainerObjects(cs, imgs, order) ==
  IF order = <<>> THEN <<>>
  ELSE LET n == Head(order)
           more == ContainerObjects(cs, imgs, Tail(order))
       IN IF cs[n].status = "absent" THEN more
          ELSE <<[name |-> n,
                  tags |-> IF cs[n].image \in imgs THEN <<cs[n].image>> ELSE <<>>,
                  config_image |-> cs[n].image,
                  broken |-> FALSE]>> \o more

ImageOrder == <<DEFAULT_IMAGE, AD_IMAGE, UBUNTU_IMAGE>>

\* the image objects the engine lists
ImageObjects(imgs) ==
  LET present == SelectSeq(ImageOrder, LAMBDA r : r \in imgs)
  IN [k \in 1..Len(present) |->
        [name |-> present[k], tags |-> <<present[k]>>, config_image |-> present[k], broken |-> FALSE]]

(***************************************************************************)
(* Entry point and controller (nihilController.py).                        *)
(***************************************************************************)
NoArgs == [ParseExit(NoCode) EXCEPT !.command = "unparsed"]

NoDoc == [results |-> <<>>, exit_code |-> NoCode, connected |-> FALSE, image_checked |-> FALSE,
          image_outcome |-> "none", printed |-> FALSE, returned |-> NoCode]

Goto(p) == pc' = p /\ UNCHANGED <<exit_code, exc, raised>>

\* a handler (or run itself) returns code to main()
Return(code) == pc' = "log" /\ exit_code' = code /\ UNCHANGED <<exc, raised>>

\* an exception leaves the handler
Raise(e) ==
  /\ pc' = "except"
  /\ exc' = e
  /\ raised' = IF e.type = "NihilError" THEN e.err ELSE raised
  /\ UNCHANGED exit_code

Call(op, target) == calls' = Append(calls, <<op, target>>)

\* the requests that change the engine
Changing == {"pull", "create", "start", "stop", "remove"}

\* the engine answered the requests `issued`, the last of them with the exception e
Fail(issued, e) ==
  failures' = IF e # NoExc /\ issued[Len(issued)][1] \in Changing
              THEN Append(failures, issued[Len(issued)])
              ELSE failures

\* the process is started with the argument vector av
Invoke(av) ==
  /\ pc = "idle"
  /\ pc' = "run"
  /\ argv' = av
  /\ invocations' = invocations + 1
  /\ invoked' = Append(invoked, av)
  /\ UNCHANGED <<engineVars, histVars, exit_code, exc, raised, interrupted, loopVars, calls,
                 args, exit_codes, auxVars, sideVars>>

\* main() up to the dispatch of NihilController.run: parse, help, version, doctor
run ==
  /\ pc = "run"
  /\ LET parsed == parse_args(argv)
     IN /\ args' = parsed
        /\ IF parsed.exit # NoCode THEN Raise(SystemExit(parsed.exit))
           ELSE IF parsed.command = None THEN Return(0)
           ELSE IF parsed.command = "version" THEN Return(0)
           ELSE IF parsed.command = "doctor" THEN Goto("doctor")
           ELSE Goto("connect")
  /\ UNCHANGED <<engineVars, histVars, interrupted, loopVars, calls, argv, invocations, invoked, exit_codes,
                 auxVars, sideVars>>

\* connect that reports a failed connection and dispatches all the same
connect_dispatches_anyway ==
  /\ pc = "connect"
  /\ \E o \in EngineOutcomes :
       LET e == manager_init(o)
       IN /\ Call("ping", "engine")
          /\ pc' = args.command
          /\ raised' = IF e.type = "NihilError" THEN e.err ELSE raised
          /\ UNCHANGED <<exit_code, exc>>
  /\ UNCHANGED <<engineVars, histVars, interrupted, loopVars, invVars, auxVars, sideVars>>

\* NihilController.run: self.manager = NihilManager() and the dispatch to the handler
connect ==
  /\ pc = "connect"
  /\ \E o \in EngineOutcomes :
       LET e == manager_init(o)
       IN /\ Call("ping", "engine")
          /\ IF e.type = "NihilError"
             THEN /\ pc' = "log"
                  /\ exit_code' = e.err.exit_code
                  /\ raised' = e.err
                  /\ UNCHANGED exc
             ELSE Goto(args.command)
  /\ UNCHANGED <<engineVars, histVars, interrupted, loopVars, invVars, auxVars, sideVars>>

Range(f) == {f[k] : k \in DOMAIN f}

\* _cmd_remove up to its loop: the names given, or the listing for the interactive selection
cmd_remove ==
  /\ pc = "remove"
  /\ IF args.names = <<>>
     THEN \E o \in EngineOutcomes :
            LET nihil == list_containers(ContainerObjects(containers, images, NameOrder), o)
            IN /\ Call("list_containers", "engine")
               /\ candidates' = [k \in 1..Len(nihil) |-> nihil[k].name]
               /\ selected' = <<>>
               /\ IF nihil = <<>> THEN Return(0) ELSE Goto("remove_select")
               /\ UNCHANGED <<targets, idx, errors>>
     ELSE /\ targets' = args.names
          /\ idx' = 1
          /\ errors' = 0
          /\ Goto("remove_get")
          /\ UNCHANGED <<candidates, selected, calls>>
  /\ UNCHANGED <<engineVars, histVars, interrupted, invVars, auxVars, sideVars>>

\* _cmd_remove: one round of the interactive selection loop (the two prompts)
cmd_remove_select ==
  /\ pc = "remove_select"
  /\ LET available == SelectSeq(candidates, LAMBDA n : n \notin Range(selected))
     IN \E choice \in Range(available) \cup {"EOF"}, more \in {"y", "n", "EOF"} :
          IF choice = "EOF"
          THEN Return(0) /\ UNCHANGED loopVars
          ELSE LET sel == Append(selected, choice)
                   left == Range(available) \ {choice}
               IN IF left # {} /\ more = "EOF"
                  THEN /\ Return(0)
                       /\ selected' = sel
                       /\ UNCHANGED <<targets, idx, errors, candidates>>
                  ELSE IF left # {} /\ more = "y"
                  THEN /\ Goto("remove_select")
                       /\ selected' = sel
                       /\ UNCHANGED <<targets, idx, errors, candidates>>
                  ELSE /\ Goto("remove_get")
                       /\ selected' = sel
                       /\ targets' = sel
                       /\ idx' = 1
                       /\ errors' = 0
                       /\ UNCHANGED candidates
  /\ UNCHANGED <<engineVars, histVars, interrupted, calls, invVars, auxVars, sideVars>>

\* cmd_remove_get that goes to the remove request whatever the container's state
cmd_remove_get_no_stop ==
  /\ pc = "remove_get"
  /\ IF idx > Len(targets)
     THEN /\ Return(IF errors > 0 THEN 1 ELSE 0)
          /\ UNCHANGED <<loopVars, calls, cur>>
     ELSE \E o \in EngineOutcomes :
            LET n == targets[idx]
                r == get_container(containers, n, o)
            IN /\ Call("get", n)
               /\ IF r.exc # NoExc
                  THEN Raise(r.exc) /\ UNCHANGED <<loopVars, cur>>
                  ELSE IF ~r.found
                  THEN /\ errors' = errors + 1
                       /\ idx' = idx + 1
                       /\ Goto("remove_get")
                       /\ UNCHANGED <<targets, candidates, selected, cur>>
                  ELSE /\ cur' = n
                       /\ Goto("remove_rm")
                       /\ UNCHANGED loopVars
  /\ UNCHANGED <<engineVars, histVars, interrupted, invVars, image_arg, doc, answers, failures, returncode, sideVars>>

\* _cmd_remove loop: next target and its get_container, or the final return
cmd_remove_get ==
  /\ pc = "remove_get"
  /\ IF idx > Len(targets)
     THEN /\ Return(IF errors > 0 THEN 1 ELSE 0)
          /\ UNCHANGED <<loopVars, calls, cur>>
     ELSE \E o \in EngineOutcomes :
            LET n == targets[idx]
                r == get_container(containers, n, o)
            IN /\ Call("get", n)
               /\ IF r.exc # NoExc
                  THEN Raise(r.exc) /\ UNCHANGED <<loopVars, cur>>
                  ELSE IF ~r.found
                  THEN /\ errors' = errors + 1
                       /\ idx' = idx + 1
                       /\ Goto("remove_get")
                       /\ UNCHANGED <<targets, candidates, selected, cur>>
                  ELSE /\ cur' = n
                       /\ Goto(IF containers[n].status = "running" THEN "remove_stop" ELSE "remove_rm")
                       /\ UNCHANGED loopVars
  /\ UNCHANGED <<engineVars, histVars, interrupted, invVars, image_arg, doc, answers, failures, returncode, sideVars>>

\* _cmd_remove loop: stop_container of a running target
cmd_remove_stop ==
  /\ pc = "remove_stop"
  /\ \E o \in EngineOutcomes :
       LET r == stop_container(containers, cur, o)
       IN /\ Call("stop", cur)
          /\ Fail(<<<<"stop", cur>>>>, r.exc)
          /\ containers' = r.containers
          /\ IF r.exc # NoExc THEN Raise(r.exc) ELSE Goto("remove_rm")
  /\ UNCHANGED <<images, histVars, interrupted, loopVars, invVars, image_arg, cur, doc, answers, returncode, sideVars>>

\* _cmd_remove loop: remove_container of the target
cmd_remove_rm ==
  /\ pc = "remove_rm"
  /\ \E o \in EngineOutcomes :
       LET r == remove_container(containers, cur, args.force, o)
       IN /\ Call("remove", cur)
          /\ Fail(<<<<"remove", cur>>>>, r.exc)
          /\ containers' = r.containers
          /\ IF r.exc # NoExc
             THEN Raise(r.exc) /\ UNCHANGED idx
             ELSE Goto("remove_get") /\ idx' = idx + 1
  /\ UNCHANGED <<images, histVars, interrupted, targets, errors, candidates, selected, invVars,
                 image_arg, cur, doc, answers, returncode, sideVars>>

(***************************************************************************)
(* Diagnostics (nihilDoctor.py).                                           *)
(***************************************************************************)
Check(name, ok) == [name |-> name, ok |-> ok]

\* NihilDoctor._check_runtime: only the Python version check can fail
check_runtime(py_ok) ==
  <<Check("Python >= 3.12", py_ok), Check("OS detecte", TRUE), Check("Docker SDK present", TRUE),
    Check("DOCKER_HOST", TRUE)>>

\* NihilDoctor.run up to the image check: runtime checks and the engine connection
cmd_doctor ==
  /\ pc = "doctor"
  /\ \E py_ok \in BOOLEAN, o \in EngineOutcomes :
       LET e == manager_init(o)
       IN /\ Call("ping", "engine")
          /\ IF e.type = "NihilError"
             THEN /\ doc' = [doc EXCEPT !.results = Append(check_runtime(py_ok),
                                                           Check("Docker daemon accessible", FALSE)),
                                        !.exit_code = e.err.exit_code]
                  /\ raised' = e.err
                  /\ pc' = "doctor_report"
             ELSE /\ doc' = [doc EXCEPT !.results = Append(check_runtime(py_ok),
                                                           Check("Docker daemon accessible", TRUE)),
                                        !.connected = TRUE]
                  /\ raised' = raised
                  /\ pc' = "doctor_image"
  /\ UNCHANGED <<engineVars, histVars, exit_code, exc, interrupted, loopVars, invVars, image_arg,
                 cur, answers, failures, returncode, sideVars>>

\* NihilDoctor._check_image: local presence, else ensure_image_exists
check_image ==
  /\ pc = "doctor_image"
  /\ \E og1 \in EngineOutcomes, og2 \in EngineOutcomes, op \in EngineOutcomes :
       LET first == <<<<"image_get", DEFAULT_IMAGE>>>>
           ens == ensure_image_exists(images, DEFAULT_IMAGE, og2, op)
           done(name, ok, outcome) ==
             doc' = [doc EXCEPT !.results = Append(doc.results, Check(name, ok)),
                                !.image_checked = TRUE,
                                !.image_outcome = outcome]
       IN IF og1 # "ok"
          THEN /\ done("Inspection image", FALSE, "inspect_error")
               /\ calls' = calls \o first
               /\ Goto("doctor_report")
               /\ UNCHANGED <<images, failures>>
          ELSE IF DEFAULT_IMAGE \in images
          THEN /\ done("Image par defaut disponible", TRUE, "present")
               /\ calls' = calls \o first
               /\ Goto("doctor_report")
               /\ UNCHANGED <<images, failures>>
          ELSE /\ calls' = calls \o first \o ens.calls
               /\ Fail(ens.calls, ens.exc)
               /\ images' = ens.images
               /\ IF ens.exc = NoExc
                  THEN done("Image par defaut disponible", TRUE, "pulled") /\ Goto("doctor_report")
                  ELSE IF ens.exc.type = "NihilError"
                  THEN done("Image par defaut disponible", FALSE, "pull_failed") /\ Goto("doctor_report")
                  ELSE /\ doc' = [doc EXCEPT !.image_checked = TRUE, !.image_outcome = "escaped"]
                       /\ Raise(ens.exc)
  /\ UNCHANGED <<containers, histVars, interrupted, loopVars, invVars, image_arg, cur, answers, returncode, sideVars>>

\* doctor_report that answers 1 when any check failed
doctor_report_strict ==
  /\ pc = "doctor_report"
  /\ LET code == IF doc.exit_code # NoCode THEN doc.exit_code
                 ELSE IF \E k \in DOMAIN doc.results : ~doc.results[k].ok THEN 1
                 ELSE 0
     IN /\ doc' = [doc EXCEPT !.printed = TRUE, !.returned = code]
        /\ Return(code)
  /\ UNCHANGED <<engineVars, histVars, interrupted, loopVars, calls, invVars, image_arg, cur,
                 answers, failures, returncode, sideVars>>

\* NihilDoctor.run: the report and the return value
doctor_report ==
  /\ pc = "doctor_report"
  /\ LET code == IF doc.exit_code # NoCode THEN doc.exit_code ELSE 0
     IN /\ doc' = [doc EXCEPT !.printed = TRUE, !.returned = code]
        /\ Return(code)
  /\ UNCHANGED <<engineVars, histVars, interrupted, loopVars, calls, invVars, image_arg, cur,
                 answers, failures, returncode, sideVars>>

(***************************************************************************)
(* install and uninstall.                                                  *)
(***************************************************************************)
\* _cmd_install up to the pull: the variant given or the selection prompt
cmd_install ==
  /\ pc = "install"
  /\ IF args.image = None
     THEN Goto("install_select") /\ UNCHANGED image_arg
     ELSE Goto("install_pull") /\ image_arg' = args.image
  /\ UNCHANGED <<engineVars, histVars, interrupted, loopVars, calls, invVars, cur, doc, answers, failures, returncode, sideVars>>

\* _cmd_install: the selection prompt; 0 stands for end of input
cmd_install_select ==
  /\ pc = "install_select"
  /\ \E choice \in 0..Len(Variants) :
       IF choice = 0
       THEN Return(0) /\ UNCHANGED image_arg
       ELSE Goto("install_pull") /\ image_arg' = Variants[choice]
  /\ UNCHANGED <<engineVars, histVars, interrupted, loopVars, calls, invVars, cur, doc, answers, failures, returncode, sideVars>>

\* _cmd_install: resolve the variant and pull
cmd_install_pull ==
  /\ pc = "install_pull"
  /\ LET image_tag == AVAILABLE_IMAGES(image_arg)
     IN IF image_tag = None
        THEN Return(1) /\ UNCHANGED <<images, calls, failures>>
        ELSE \E o \in EngineOutcomes :
               /\ Call("pull", image_tag)
               /\ Fail(<<<<"pull", image_tag>>>>, IF o = "ok" THEN NoExc ELSE PyException("APIError"))
               /\ IF o = "ok"
                  THEN Return(0) /\ images' = images \cup {image_tag}
                  ELSE Return(1) /\ UNCHANGED images
  /\ UNCHANGED <<containers, histVars, interrupted, loopVars, invVars, image_arg, cur, doc, answers, returncode, sideVars>>

\* _cmd_uninstall: how a name given on the command line becomes an image reference
ResolveImage(item) ==
  IF item \in {"base", "ad", "active-directory"} THEN AVAILABLE_IMAGES(item)
  ELSE IF item \in {"nihil-ad", "nihil-ad:latest"} THEN AVAILABLE_IMAGES("ad")
  ELSE IF item \in {"nihil", "nihil:latest"} THEN AVAILABLE_IMAGES("base")
  ELSE item

\* the names of the containers created from image, in the engine's order
UsersOf(cs, image) ==
  SelectSeq(NameOrder, LAMBDA n : cs[n].status # "absent" /\ cs[n].image = image)

\* _cmd_uninstall: containers_to_remove; failed holds the indices whose inspection raised
RECURSIVE ScanContainers(_, _, _, _, _)
ScanContainers(cs, imgs, tg, failed, k) ==
  IF k > Len(tg) THEN <<>>
  ELSE (IF k \notin failed /\ tg[k] \in imgs THEN UsersOf(cs, tg[k]) ELSE <<>>)
       \o ScanContainers(cs, imgs, tg, failed, k + 1)

Answers == {"y", "Yes", "n", "", "EOF"}

\* the answers tried at each of the two prompts
AskAnswers == Answers \ {"Yes"}
ConfirmAnswers == Answers \ {"y"}

\* Confirmed with end of input read as 'y'
Confirmed_eof_is_yes(answer) ==
  LET text == IF answer = "EOF" THEN "y" ELSE answer
      lower == IF text = "Yes" THEN "yes" ELSE text
  IN lower \in {"y", "yes"}

\* input(...) with EOFError read as 'n', then .lower() in ['y', 'yes']
Confirmed(answer) ==
  LET text == IF answer = "EOF" THEN "n" ELSE answer
      lower == IF text = "Yes" THEN "yes" ELSE text
  IN lower \in {"y", "yes"}

\* _cmd_uninstall: the images given, or the listing for the selection
cmd_uninstall ==
  /\ pc = "uninstall"
  /\ IF args.names = <<>>
     THEN \E o \in EngineOutcomes :
            LET images_list == list_images(ImageObjects(images), o)
            IN /\ Call("list_images", "engine")
               /\ candidates' = [k \in 1..Len(images_list) |-> images_list[k].tags[1]]
               /\ IF images_list = <<>> THEN Return(0) ELSE Goto("uninstall_select")
               /\ UNCHANGED targets
     ELSE /\ targets' = [k \in 1..Len(args.names) |-> ResolveImage(args.names[k])]
          /\ Goto("uninstall_scan")
          /\ UNCHANGED <<candidates, calls>>
  /\ UNCHANGED <<engineVars, histVars, interrupted, idx, errors, selected, invVars, auxVars, sideVars>>

\* _cmd_uninstall: the selection prompt; 0 stands for end of input
cmd_uninstall_select ==
  /\ pc = "uninstall_select"
  /\ \E choice \in 0..Len(candidates) :
       IF choice = 0
       THEN Return(0) /\ UNCHANGED targets
       ELSE Goto("uninstall_scan") /\ targets' = <<candidates[choice]>>
  /\ UNCHANGED <<engineVars, histVars, interrupted, idx, errors, candidates, selected, calls,
                 invVars, auxVars, sideVars>>

\* _cmd_uninstall: collect the containers that use the images
cmd_uninstall_scan ==
  /\ pc = "uninstall_scan"
  /\ \E failed \in SUBSET (1..Len(targets)) :
       LET containers_to_remove == ScanContainers(containers, images, targets, failed, 1)
       IN /\ selected' = containers_to_remove
          /\ Goto(IF containers_to_remove # <<>> THEN "uninstall_ask" ELSE "uninstall_confirm")
  /\ Call("scan", "engine")
  /\ UNCHANGED <<engineVars, histVars, interrupted, targets, idx, errors, candidates, invVars,
                 auxVars, sideVars>>

\* _cmd_uninstall: "Do you want to remove these containers too?"
cmd_uninstall_ask ==
  /\ pc = "uninstall_ask"
  /\ \E answer \in AskAnswers :
       /\ answers' = Append(answers, <<"remove_containers", answer>>)
       /\ IF Confirmed(answer)
          THEN Goto("uninstall_rmc") /\ idx' = 1
          ELSE Return(1) /\ UNCHANGED idx
  /\ UNCHANGED <<engineVars, histVars, interrupted, targets, errors, candidates, selected, calls,
                 invVars, image_arg, cur, doc, failures, returncode, sideVars>>

\* _cmd_uninstall: the body of the try block that removes one container
RemoveUsingContainer(cs, n, og, os, orm) ==
  LET g == get_container(cs, n, og)
  IN IF g.exc # NoExc \/ ~g.found
     THEN [containers |-> cs, calls |-> <<<<"get", n>>>>, exc |-> g.exc]
     ELSE IF cs[n].status = "running"
     THEN LET st == stop_container(cs, n, os)
          IN IF st.exc # NoExc
             THEN [containers |-> cs, calls |-> <<<<"get", n>>, <<"stop", n>>>>, exc |-> st.exc]
             ELSE [containers |-> remove_container(st.containers, n, TRUE, orm).containers,
                   calls |-> <<<<"get", n>>, <<"stop", n>>, <<"remove", n>>>>,
                   exc |-> remove_container(st.containers, n, TRUE, orm).exc]
     ELSE [containers |-> remove_container(cs, n, TRUE, orm).containers,
           calls |-> <<<<"get", n>>, <<"remove", n>>>>,
           exc |-> remove_container(cs, n, TRUE, orm).exc]

\* _cmd_uninstall: one round of the loop over containers_to_remove
cmd_uninstall_rmc ==
  /\ pc = "uninstall_rmc"
  /\ IF idx > Len(selected)
     THEN Goto("uninstall_confirm") /\ UNCHANGED <<containers, idx, calls, failures>>
     ELSE \E og \in EngineOutcomes, os \in EngineOutcomes, orm \in EngineOutcomes :
            LET r == RemoveUsingContainer(containers, selected[idx], og, os, orm)
            IN /\ containers' = r.containers
               /\ calls' = calls \o r.calls
               /\ Fail(r.calls, r.exc)
               /\ idx' = idx + 1
               /\ Goto("uninstall_rmc")
  /\ UNCHANGED <<images, histVars, interrupted, targets, errors, candidates, selected, invVars,
                 image_arg, cur, doc, answers, returncode, sideVars>>

\* _cmd_uninstall: "Proceed with image removal?"
cmd_uninstall_confirm ==
  /\ pc = "uninstall_confirm"
  /\ \E answer \in ConfirmAnswers :
       /\ answers' = Append(answers, <<"confirm", answer>>)
       /\ IF Confirmed(answer)
          THEN Goto("uninstall_rmi") /\ idx' = 1 /\ errors' = 0
          ELSE Return(0) /\ UNCHANGED <<idx, errors>>
  /\ UNCHANGED <<engineVars, histVars, interrupted, targets, candidates, selected, calls, invVars,
                 image_arg, cur, doc, failures, returncode, sideVars>>

\* cmd_uninstall_rmi that gives up at the first removal that fails
cmd_uninstall_rmi_abort ==
  /\ pc = "uninstall_rmi"
  /\ IF idx > Len(targets)
     THEN Return(IF errors > 0 THEN 1 ELSE 0) /\ UNCHANGED <<images, idx, errors, calls>>
     ELSE \E o \in EngineOutcomes :
            LET r == remove_image(images, containers, targets[idx], args.force, o)
            IN /\ Call("remove_image", targets[idx])
               /\ images' = r.images
               /\ errors' = IF r.exc # NoExc THEN errors + 1 ELSE errors
               /\ idx' = idx + 1
               /\ IF r.exc # NoExc THEN Return(1) ELSE Goto("uninstall_rmi")
  /\ UNCHANGED <<containers, histVars, interrupted, targets, candidates, selected, invVars,
                 auxVars, sideVars>>

\* _cmd_uninstall: one round of the loop over the images, or the final return
cmd_uninstall_rmi ==
  /\ pc = "uninstall_rmi"
  /\ IF idx > Len(targets)
     THEN Return(IF errors > 0 THEN 1 ELSE 0) /\ UNCHANGED <<images, idx, errors, calls>>
     ELSE \E o \in EngineOutcomes :
            LET r == remove_image(images, containers, targets[idx], args.force, o)
            IN /\ Call("remove_image", targets[idx])
               /\ images' = r.images
               /\ errors' = IF r.exc # NoExc THEN errors + 1 ELSE errors
               /\ idx' = idx + 1
               /\ Goto("uninstall_rmi")
  /\ UNCHANGED <<containers, histVars, interrupted, targets, candidates, selected, invVars,
                 auxVars, sideVars>>

(***************************************************************************)
(* start, stop, exec, info, images, completion.                            *)
(***************************************************************************)
\* cmd_start that takes the creation path for a container that exists when --image is given
cmd_start_recreates ==
  /\ pc = "start"
  /\ \E o \in EngineOutcomes :
       LET n == args.names[1]
           r == get_container(containers, n, o)
       IN /\ Call("get", n)
          /\ cur' = n
          /\ IF r.exc # NoExc THEN Raise(r.exc) /\ UNCHANGED image_arg
             ELSE IF r.found /\ args.image = None
             THEN /\ Goto(IF containers[n].status = "running" THEN "start_shell" ELSE "start_start")
                  /\ UNCHANGED image_arg
             ELSE IF args.image = None
             THEN Goto("start_select") /\ UNCHANGED image_arg
             ELSE Goto("start_create") /\ image_arg' = args.image
  /\ UNCHANGED <<engineVars, histVars, interrupted, loopVars, invVars, doc, answers, failures, returncode, sideVars>>

\* _cmd_start: look the container up
cmd_start ==
  /\ pc = "start"
  /\ \E o \in EngineOutcomes :
       LET n == args.names[1]
           r == get_container(containers, n, o)
       IN /\ Call("get", n)
          /\ cur' = n
          /\ IF r.exc # NoExc THEN Raise(r.exc) /\ UNCHANGED image_arg
             ELSE IF r.found
             THEN /\ Goto(IF containers[n].status = "running" THEN "start_shell" ELSE "start_start")
                  /\ UNCHANGED image_arg
             ELSE IF args.image = None
             THEN Goto("start_select") /\ UNCHANGED image_arg
             ELSE Goto("start_create") /\ image_arg' = args.image
  /\ UNCHANGED <<engineVars, histVars, interrupted, loopVars, invVars, doc, answers, failures, returncode, sideVars>>

\* _cmd_start: the image selection prompt, which catches KeyboardInterrupt only; 0 stands for
\* end of input
cmd_start_select ==
  /\ pc = "start_select"
  /\ \E choice \in 0..Len(Variants) :
       IF choice = 0
       THEN Raise(PyException("EOFError")) /\ UNCHANGED image_arg
       ELSE Goto("start_create") /\ image_arg' = Variants[choice]
  /\ UNCHANGED <<engineVars, histVars, interrupted, loopVars, calls, invVars, cur, doc, answers, failures, returncode, sideVars>>

\* cmd_start_create that does not pass args.privileged on
cmd_start_create_unprivileged ==
  /\ pc = "start_create"
  /\ \E og \in EngineOutcomes, op \in EngineOutcomes, oc \in EngineOutcomes :
       LET image == IF AVAILABLE_IMAGES(image_arg) = None THEN DEFAULT_IMAGE
                    ELSE AVAILABLE_IMAGES(image_arg)
           r == create_container(containers, images, cur, image, FALSE, NoVolumes, "host", None,
                                 og, op, oc)
       IN /\ calls' = calls \o r.calls
          /\ Fail(r.calls, r.exc)
          /\ containers' = r.containers
          /\ images' = r.images
          /\ IF r.exc # NoExc THEN Raise(r.exc) ELSE Goto("start_start")
  /\ UNCHANGED <<histVars, interrupted, loopVars, invVars, image_arg, cur, doc, answers, returncode, sideVars>>

\* cmd_start_create that goes on to start the container of that name when its create request
\* is rejected
cmd_start_create_attaches ==
  /\ pc = "start_create"
  /\ \E og \in EngineOutcomes, op \in EngineOutcomes, oc \in EngineOutcomes :
       LET image == IF AVAILABLE_IMAGES(image_arg) = None THEN DEFAULT_IMAGE
                    ELSE AVAILABLE_IMAGES(image_arg)
           r == create_container(containers, images, cur, image, args.privileged, NoVolumes,
                                 "host", None, og, op, oc)
       IN /\ calls' = calls \o r.calls
          /\ Fail(r.calls, r.exc)
          /\ containers' = r.containers
          /\ images' = r.images
          /\ IF r.exc # NoExc /\ r.calls[Len(r.calls)][1] # "create" THEN Raise(r.exc)
             ELSE Goto("start_start")
  /\ UNCHANGED <<histVars, interrupted, loopVars, invVars, image_arg, cur, doc, answers, returncode, sideVars>>

\* _cmd_start: manager.create_container
cmd_start_create ==
  /\ pc = "start_create"
  /\ \E og \in EngineOutcomes, op \in EngineOutcomes, oc \in EngineOutcomes :
       LET image == IF AVAILABLE_IMAGES(image_arg) = None THEN DEFAULT_IMAGE
                    ELSE AVAILABLE_IMAGES(image_arg)
           r == create_container(containers, images, cur, image, args.privileged, NoVolumes,
                                 "host", None, og, op, oc)
       IN /\ calls' = calls \o r.calls
          /\ Fail(r.calls, r.exc)
          /\ containers' = r.containers
          /\ images' = r.images
          /\ IF r.exc # NoExc THEN Raise(r.exc) ELSE Goto("start_start")
  /\ UNCHANGED <<histVars, interrupted, loopVars, invVars, image_arg, cur, doc, answers, returncode, sideVars>>

\* cmd_start_start that removes the container again when the start request fails
cmd_start_start_cleanup ==
  /\ pc = "start_start"
  /\ \E o \in EngineOutcomes :
       LET r == start_container(containers, cur, o)
       IN /\ Fail(<<<<"start", cur>>>>, r.exc)
          /\ IF r.exc # NoExc
             THEN /\ calls' = calls \o <<<<"start", cur>>, <<"remove", cur>>>>
                  /\ containers' = [containers EXCEPT ![cur] = Absent]
                  /\ Raise(r.exc)
             ELSE /\ Call("start", cur)
                  /\ containers' = r.containers
                  /\ Goto("start_shell")
  /\ UNCHANGED <<images, histVars, interrupted, loopVars, invVars, image_arg, cur, doc, answers,
                 returncode, sideVars>>

\* _cmd_start: manager.start_container, on the container found or just created
cmd_start_start ==
  /\ pc = "start_start"
  /\ \E o \in EngineOutcomes :
       LET r == start_container(containers, cur, o)
       IN /\ Call("start", cur)
          /\ Fail(<<<<"start", cur>>>>, r.exc)
          /\ containers' = r.containers
          /\ IF r.exc # NoExc THEN Raise(r.exc) ELSE Goto("start_shell")
  /\ UNCHANGED <<images, histVars, interrupted, loopVars, invVars, image_arg, cur, doc, answers, returncode, sideVars>>

\* the exit statuses of the command run in the container that the model tries
ExitStatuses == {0, 1, 127}

\* NihilManager.exec_in_container: the status of the command run in the container is dropped
exec_in_container(status) == None

\* _cmd_start: the interactive session unless --no-shell
cmd_start_shell ==
  /\ pc = "start_shell"
  /\ IF args.no_shell
     THEN Return(0) /\ UNCHANGED <<calls, returncode>>
     ELSE \E status \in ExitStatuses :
            /\ exec_in_container(status) = None
            /\ returncode' = status
            /\ calls' = IF args.log
                        THEN calls \o <<<<"exec", cur>>, <<"exec", cur>>>>
                        ELSE Append(calls, <<"exec", cur>>)
            /\ Return(0)
  /\ UNCHANGED <<engineVars, histVars, interrupted, loopVars, invVars, image_arg, cur, doc,
                 answers, failures, sideVars>>

\* cmd_stop without the test of the container's state
cmd_stop_any_state ==
  /\ pc = "stop"
  /\ \E o \in EngineOutcomes :
       LET n == args.names[1]
           r == get_container(containers, n, o)
       IN /\ Call("get", n)
          /\ cur' = n
          /\ IF r.exc # NoExc THEN Raise(r.exc)
             ELSE IF ~r.found THEN Return(1)
             ELSE Goto("stop_stop")
  /\ UNCHANGED <<engineVars, histVars, interrupted, loopVars, invVars, image_arg, doc, answers, failures, returncode, sideVars>>

\* _cmd_stop: look the container up and check its state
cmd_stop ==
  /\ pc = "stop"
  /\ \E o \in EngineOutcomes :
       LET n == args.names[1]
           r == get_container(containers, n, o)
       IN /\ Call("get", n)
          /\ cur' = n
          /\ IF r.exc # NoExc THEN Raise(r.exc)
             ELSE IF ~r.found THEN Return(1)
             ELSE IF containers[n].status # "running" THEN Return(0)
             ELSE Goto("stop_stop")
  /\ UNCHANGED <<engineVars, histVars, interrupted, loopVars, invVars, image_arg, doc, answers, failures, returncode, sideVars>>

\* _cmd_stop: manager.stop_container
cmd_stop_stop ==
  /\ pc = "stop_stop"
  /\ \E o \in EngineOutcomes :
       LET r == stop_container(containers, cur, o)
       IN /\ Call("stop", cur)
          /\ Fail(<<<<"stop", cur>>>>, r.exc)
          /\ containers' = r.containers
          /\ IF r.exc # NoExc THEN Raise(r.exc) ELSE Return(0)
  /\ UNCHANGED <<images, histVars, interrupted, loopVars, invVars, image_arg, cur, doc, answers, returncode, sideVars>>

\* _cmd_exec: look the container up and check its state
cmd_exec ==
  /\ pc = "exec"
  /\ \E o \in EngineOutcomes :
       LET n == args.names[1]
           r == get_container(containers, n, o)
       IN /\ Call("get", n)
          /\ cur' = n
          /\ IF r.exc # NoExc THEN Raise(r.exc)
             ELSE IF ~r.found THEN Return(1)
             ELSE IF containers[n].status # "running" THEN Return(1)
             ELSE Goto("exec_run")
  /\ UNCHANGED <<engineVars, histVars, interrupted, loopVars, invVars, image_arg, doc, answers, failures, returncode, sideVars>>

\* cmd_exec_run that returns the exit status of the command run in the container
cmd_exec_run_propagates ==
  /\ pc = "exec_run"
  /\ \E status \in ExitStatuses :
       /\ returncode' = status
       /\ Call("exec", cur)
       /\ Return(status)
  /\ UNCHANGED <<engineVars, histVars, interrupted, loopVars, invVars, image_arg, cur, doc,
                 answers, failures, sideVars>>

\* _cmd_exec: the session
cmd_exec_run ==
  /\ pc = "exec_run"
  /\ \E status \in ExitStatuses :
       /\ exec_in_container(status) = None
       /\ returncode' = status
       /\ Call("exec", cur)
       /\ Return(0)
  /\ UNCHANGED <<engineVars, histVars, interrupted, loopVars, invVars, image_arg, cur, doc,
                 answers, failures, sideVars>>

\* _cmd_info: the two listings, each of which turns an engine error into an empty list
cmd_info ==
  /\ pc = "info"
  /\ calls' = calls \o <<<<"list_images", "engine">>, <<"list_containers", "engine">>>>
  /\ Return(0)
  /\ UNCHANGED <<engineVars, histVars, interrupted, loopVars, invVars, auxVars, sideVars>>

\* _cmd_images
cmd_images ==
  /\ pc = "images"
  /\ Return(0)
  /\ UNCHANGED <<engineVars, histVars, interrupted, loopVars, calls, invVars, auxVars, sideVars>>

\* _cmd_completion: the generator is missing, fails, or prints the script
cmd_completion ==
  /\ pc = "completion"
  /\ \E outcome \in {"ok", "missing", "failed"} : Return(IF outcome = "ok" THEN 0 ELSE 1)
  /\ UNCHANGED <<engineVars, histVars, interrupted, loopVars, calls, invVars, auxVars, sideVars>>

\* positions inside main()'s try block
Running == pc \notin {"idle", "except", "log", "done", "exited"}

SelectionPrompts == {"start_select", "remove_select", "install_select", "uninstall_select"}

\* the user's interrupt: KeyboardInterrupt at the current position; the selection prompts catch it
Interrupt ==
  /\ Running
  /\ interrupted' = pc
  /\ IF pc = "start_select" THEN Return(1)
     ELSE IF pc \in SelectionPrompts THEN Return(0)
     ELSE Raise(KeyboardInterrupt)
  /\ UNCHANGED <<engineVars, histVars, loopVars, calls, invVars, auxVars, sideVars>>

\* main_except without the NihilError clause: a domain error falls to the generic clause
main_except_no_domain_clause ==
  /\ pc = "except"
  /\ IF exc.type = "SystemExit"
     THEN pc' = "exited" /\ exit_code' = exc.code
     ELSE /\ pc' = "log"
          /\ exit_code' = CASE exc.type = "KeyboardInterrupt" -> 130
                            [] OTHER -> 1
  /\ UNCHANGED <<engineVars, histVars, exc, raised, interrupted, loopVars, calls, invVars,
                 auxVars, sideVars>>

\* main_except whose KeyboardInterrupt clause answers like the generic clause
main_except_no_interrupt_clause ==
  /\ pc = "except"
  /\ IF exc.type = "SystemExit"
     THEN pc' = "exited" /\ exit_code' = exc.code
     ELSE /\ pc' = "log"
          /\ exit_code' = CASE exc.type = "NihilError" -> exc.err.exit_code
                            [] OTHER -> 1
  /\ UNCHANGED <<engineVars, histVars, exc, raised, interrupted, loopVars, calls, invVars,
                 auxVars, sideVars>>

\* main(): the except clauses; SystemExit is none of them and leaves main()
main_except ==
  /\ pc = "except"
  /\ IF exc.type = "SystemExit"
     THEN pc' = "exited" /\ exit_code' = exc.code
     ELSE /\ pc' = "log"
          /\ exit_code' = CASE exc.type = "KeyboardInterrupt" -> 130
                            [] exc.type = "NihilError" -> exc.err.exit_code
                            [] OTHER -> 1
  /\ UNCHANGED <<engineVars, histVars, exc, raised, interrupted, loopVars, calls, invVars,
                 auxVars, sideVars>>

\* log_command whose failure is reported through the exit code
log_command_failure_changes_code ==
  /\ pc = "log"
  /\ \E w \in {"ok", "oserror"} :
       /\ history' = IF w = "ok" THEN Append(history, HistoryLine(argv)) ELSE history
       /\ log_failed' = (log_failed \/ w # "ok")
       /\ exit_code' = IF w = "ok" THEN exit_code ELSE 1
  /\ pc' = "done"
  /\ UNCHANGED <<engineVars, exc, raised, interrupted, loopVars, calls, invVars,
                 auxVars, sideVars>>

\* nihilHistory.log_command as main() calls it, then `return exit_code`; w is the outcome of
\* the mkdir / open / write
log_command ==
  /\ pc = "log"
  /\ \E w \in {"ok", "oserror"} :
       /\ history' = IF w = "ok" THEN Append(history, HistoryLine(argv)) ELSE history
       /\ log_failed' = (log_failed \/ w # "ok")
  /\ pc' = "done"
  /\ UNCHANGED <<engineVars, exit_code, exc, raised, interrupted, loopVars, calls, invVars,
                 auxVars, sideVars>>

(***************************************************************************)
(* One invocation from any engine state.                                   *)
(***************************************************************************)
InitInvocation ==
  /\ log_failed = FALSE
  /\ pc = "idle"
  /\ exit_code = NoCode
  /\ exc = NoExc
  /\ raised = NoError
  /\ interrupted = "no"
  /\ targets = <<>>
  /\ idx = 0
  /\ errors = 0
  /\ candidates = <<>>
  /\ selected = <<>>
  /\ calls = <<>>
  /\ argv = <<>>
  /\ args = NoArgs
  /\ invocations = 0
  /\ invoked = <<>>
  /\ exit_codes = <<>>
  /\ image_arg = None
  /\ cur = None
  /\ doc = NoDoc
  /\ answers = <<>>
  /\ failures = <<>>
  /\ returncode = NoCode

\* no second invocation runs
NoPeer ==
  [pc |-> "idle", name |-> None, privileged |-> FALSE, calls |-> <<>>, failures |-> <<>>,
   exit_code |-> NoCode]

\* no formatter call was made
NoFormat ==
  [op |-> "none", use_colors |-> FALSE, t |-> <<>>, c |-> <<>>, out |-> <<>>, stripped |-> <<>>,
   real_len |-> 0]

\* no method was called on its own yet
NoRequest ==
  [op |-> "none", name |-> None, image |-> None, privileged |-> FALSE, volumes |-> NoVolumes,
   network_mode |-> None, workspace |-> None, force |-> FALSE, og |-> "ok", op2 |-> "ok",
   oc |-> "ok", containers |-> [n \in Names |-> Absent], images |-> {}]

NoResult == [exc |-> NoExc, ret |-> "none", calls |-> <<>>, config |-> NoConfig]

InitSide ==
  /\ err = NoError
  /\ req = [cls |-> "none", args |-> [subject |-> "x", message |-> NONE, hint |-> NONE, exit_code |-> NoCode]]
  /\ err_text = NONE
  /\ fmt = NoFormat
  /\ peer = NoPeer
  /\ listing = <<>>
  /\ listed = [kind |-> "none", outcome |-> "ok", result |-> <<>>]
  /\ mreq = NoRequest
  /\ mres = NoResult

Init ==
  /\ containers \in [Names -> InitContainerStates]
  /\ images \in SUBSET {DEFAULT_IMAGE, UBUNTU_IMAGE}
  /\ history = <<>>
  /\ InitInvocation
  /\ InitSide

Next ==
  \/ \E av \in Argvs : Invoke(av)
  \/ run
  \/ connect
  \/ cmd_remove
  \/ cmd_remove_select
  \/ cmd_remove_get
  \/ cmd_remove_stop
  \/ cmd_remove_rm
  \/ cmd_doctor
  \/ check_image
  \/ doctor_report
  \/ cmd_install
  \/ cmd_install_select
  \/ cmd_install_pull
  \/ cmd_uninstall
  \/ cmd_uninstall_select
  \/ cmd_uninstall_scan
  \/ cmd_uninstall_ask
  \/ cmd_uninstall_rmc
  \/ cmd_uninstall_confirm
  \/ cmd_uninstall_rmi
  \/ cmd_start
  \/ cmd_start_select
  \/ cmd_start_create
  \/ cmd_start_start
  \/ cmd_start_shell
  \/ cmd_stop
  \/ cmd_stop_stop
  \/ cmd_exec
  \/ cmd_exec_run
  \/ cmd_info
  \/ cmd_images
  \/ cmd_completion
  \/ Interrupt
  \/ main_except
  \/ log_command

Spec == Init /\ [][Next]_vars

(***************************************************************************)
(* A sequence of invocations, for the history log.                         *)
(***************************************************************************)
\* what history.log holds before the first invocation
InitialHistory == <<HistoryLine(<<"info">>)>>

HistArgvs ==
  {<<>>, <<"--version">>, <<"stop">>, <<"remove", "a">>, <<"remove", "b", "a">>}

\* the process has ended; the next invocation starts a new one
Again ==
  /\ pc \in {"done", "exited"}
  /\ invocations < MaxInvocations
  /\ pc' = "idle"
  /\ exit_code' = NoCode
  /\ exc' = NoExc
  /\ raised' = NoError
  /\ interrupted' = "no"
  /\ targets' = <<>>
  /\ idx' = 0
  /\ errors' = 0
  /\ candidates' = <<>>
  /\ selected' = <<>>
  /\ calls' = <<>>
  /\ args' = NoArgs
  /\ image_arg' = None
  /\ cur' = None
  /\ failures' = <<>>
  /\ returncode' = NoCode
  /\ exit_codes' = Append(exit_codes, exit_code)
  /\ UNCHANGED <<engineVars, histVars, argv, invocations, invoked, doc, answers, sideVars>>

InitHist ==
  /\ containers = [n \in Names |->
                     IF n = "a" THEN [status |-> "running", image |-> DEFAULT_IMAGE, privileged |-> FALSE]
                     ELSE Absent]
  /\ images = {DEFAULT_IMAGE}
  /\ history = InitialHistory
  /\ InitInvocation
  /\ InitSide

NextHist ==
  \/ \E av \in HistArgvs : Invoke(av)
  \/ run
  \/ connect
  \/ cmd_remove
  \/ cmd_remove_get
  \/ cmd_remove_stop
  \/ cmd_remove_rm
  \/ Interrupt
  \/ main_except
  \/ log_command
  \/ Again

SpecHist == InitHist /\ [][NextHist]_vars

(***************************************************************************)
(* `start` invoked again and again on an engine that holds no container.   *)
(***************************************************************************)
StartAgainArgvs ==
  {<<"start", "a">>, <<"start", "a", "--image=base">>, <<"start", "a", "--privileged", "--image=ad">>,
   <<"start", "b", "--image=base", "--no-shell">>}

InitStart ==
  /\ containers = [n \in Names |-> Absent]
  /\ images = {DEFAULT_IMAGE}
  /\ history = <<>>
  /\ InitInvocation
  /\ InitSide

NextStart ==
  \/ \E av \in StartAgainArgvs : Invoke(av)
  \/ run
  \/ connect
  \/ cmd_start
  \/ cmd_start_select
  \/ cmd_start_create
  \/ cmd_start_start
  \/ cmd_start_shell
  \/ Interrupt
  \/ main_except
  \/ log_command
  \/ Again

SpecStart == InitStart /\ [][NextStart]_vars

(***************************************************************************)
(* Two invocations of start at the same time: the one of the variables     *)
(* above and a peer, which runs _cmd_start with --image=base, one engine   *)
(* request per step.  Nothing in the code makes them wait for each other.  *)
(***************************************************************************)
PairArgvs == {<<"start", "a", "--image=base">>, <<"start", "a", "--privileged", "--image=ad">>}

PeerFrame ==
  UNCHANGED <<histVars, pc, exit_code, exc, raised, interrupted, loopVars, calls, invVars,
              auxVars, err, req, err_text, fmt, listing, listed, mreq, mres>>

\* the exit code main() gives for the exception e
ExitCodeOf(e) ==
  CASE e.type = "KeyboardInterrupt" -> 130
    [] e.type = "NihilError" -> e.err.exit_code
    [] OTHER -> 1

\* the peer is started: start n --image=base, with or without --privileged
PeerInvoke ==
  /\ peer.pc = "idle"
  /\ \E n \in Names, privileged \in BOOLEAN :
       peer' = [peer EXCEPT !.pc = "start", !.name = n, !.privileged = privileged]
  /\ UNCHANGED engineVars
  /\ PeerFrame

\* the peer's _cmd_start: look the container up
PeerGet ==
  /\ peer.pc = "start"
  /\ \E o \in EngineOutcomes :
       LET r == get_container(containers, peer.name, o)
       IN peer' = [peer EXCEPT
                     !.calls = Append(@, <<"get", peer.name>>),
                     !.pc = IF r.exc # NoExc THEN "done"
                            ELSE IF ~r.found THEN "start_create"
                            ELSE IF containers[peer.name].status = "running" THEN "start_shell"
                            ELSE "start_start",
                     !.exit_code = IF r.exc # NoExc THEN ExitCodeOf(r.exc) ELSE @]
  /\ UNCHANGED engineVars
  /\ PeerFrame

\* the peer's _cmd_start: manager.create_container
PeerCreate ==
  /\ peer.pc = "start_create"
  /\ \E og \in EngineOutcomes, op \in EngineOutcomes, oc \in EngineOutcomes :
       LET r == create_container(containers, images, peer.name, AVAILABLE_IMAGES("base"),
                                 peer.privileged, NoVolumes, "host", None, og, op, oc)
       IN /\ containers' = r.containers
          /\ images' = r.images
          /\ peer' = [peer EXCEPT
                        !.calls = @ \o r.calls,
                        !.failures = IF r.exc # NoExc /\ r.calls[Len(r.calls)][1] \in Changing
                                     THEN Append(@, r.calls[Len(r.calls)]) ELSE @,
                        !.pc = IF r.exc # NoExc THEN "done" ELSE "start_start",
                        !.exit_code = IF r.exc # NoExc THEN ExitCodeOf(r.exc) ELSE @]
  /\ PeerFrame

\* the peer's _cmd_start: manager.start_container
PeerStart ==
  /\ peer.pc = "start_start"
  /\ \E o \in EngineOutcomes :
       LET r == start_container(containers, peer.name, o)
       IN /\ containers' = r.containers
          /\ peer' = [peer EXCEPT
                        !.calls = Append(@, <<"start", peer.name>>),
                        !.failures = IF r.exc # NoExc THEN Append(@, <<"start", peer.name>>) ELSE @,
                        !.pc = IF r.exc # NoExc THEN "done" ELSE "start_shell",
                        !.exit_code = IF r.exc # NoExc THEN ExitCodeOf(r.exc) ELSE @]
  /\ UNCHANGED images
  /\ PeerFrame

\* the peer's _cmd_start: the session, and return 0
PeerShell ==
  /\ peer.pc = "start_shell"
  /\ peer' = [peer EXCEPT !.calls = Append(@, <<"exec", peer.name>>), !.pc = "done",
                          !.exit_code = 0]
  /\ UNCHANGED engineVars
  /\ PeerFrame

NextPair ==
  \/ \E av \in PairArgvs : Invoke(av)
  \/ run
  \/ connect
  \/ cmd_start
  \/ cmd_start_create
  \/ cmd_start_start
  \/ cmd_start_shell
  \/ main_except
  \/ log_command
  \/ PeerInvoke
  \/ PeerGet
  \/ PeerCreate
  \/ PeerStart
  \/ PeerShell

SpecPair == InitStart /\ [][NextPair]_vars

(***************************************************************************)
(* The error constructors on their own.                                    *)
(***************************************************************************)
\* a caller imports a class of the taxonomy and calls it
Construct ==
  \E cls \in ImportedClasses, a \in CtorArgs :
    /\ req' = [cls |-> cls, args |-> a]
    /\ err' = Instantiate(cls, a)
    /\ err_text' = IF Instantiate(cls, a).cls \in DefinedClasses THEN Str(Instantiate(cls, a)) ELSE NONE
    /\ UNCHANGED <<engineVars, histVars, pc, exit_code, exc, raised, interrupted, loopVars, calls,
                   invVars, auxVars, fmt, peer, listing, listed, mreq, mres>>

InitErr ==
  /\ containers = [n \in Names |-> Absent]
  /\ images = {}
  /\ history = <<>>
  /\ InitInvocation
  /\ InitSide

SpecErr == InitErr /\ [][Construct]_vars

(***************************************************************************)
(* Formatter (nihilFormatter.py).  A text is the sequence of its           *)
(* characters; "ESC" is the character \x1B, "CHECK" and "CROSS" are the    *)
(* two marks of the success and error prefixes.                            *)
(***************************************************************************)
ESC == "ESC"

\* ord(ch) for the characters the model uses
Code(ch) ==
  CASE ch = ESC -> 27
    [] ch = " " -> 32
    [] ch = "!" -> 33
    [] ch = "*" -> 42
    [] ch = "0" -> 48
    [] ch = "1" -> 49
    [] ch = "2" -> 50
    [] ch = "3" -> 51
    [] ch = "4" -> 52
    [] ch = "5" -> 53
    [] ch = "6" -> 54
    [] ch = ";" -> 59
    [] ch = "Z" -> 90
    [] ch = "[" -> 91
    [] ch = "]" -> 93
    [] ch = "a" -> 97
    [] ch = "m" -> 109
    [] ch = "CHECK" -> 10003
    [] ch = "CROSS" -> 10007

RED == <<ESC, "[", "1", ";", "3", "1", "m">>
GREEN == <<ESC, "[", "1", ";", "3", "2", "m">>
YELLOW == <<ESC, "[", "1", ";", "3", "3", "m">>
BLUE == <<ESC, "[", "1", ";", "3", "4", "m">>
MAGENTA == <<ESC, "[", "1", ";", "3", "5", "m">>
CYAN == <<ESC, "[", "1", ";", "3", "6", "m">>
RESET == <<ESC, "[", "0", "m">>
BOLD == <<ESC, "[", "1", "m">>

Colors == {RED, GREEN, YELLOW, BLUE, MAGENTA, CYAN, RESET, BOLD}

\* _colorize that ignores use_colors
colorize_always(use_colors, t, color) == color \o t \o RESET

\* NihilFormatter._colorize
colorize(use_colors, t, color) == IF use_colors THEN color \o t \o RESET ELSE t

\* the character classes of ansi_escape: [@-Z\\-_], [0-?], [ -/] and [@-~]
IsFe(ch) == (Code(ch) >= 64 /\ Code(ch) <= 90) \/ (Code(ch) >= 92 /\ Code(ch) <= 95)
IsParam(ch) == Code(ch) >= 48 /\ Code(ch) <= 63
IsIntermediate(ch) == Code(ch) >= 32 /\ Code(ch) <= 47
IsFinal(ch) == Code(ch) >= 64 /\ Code(ch) <= 126

\* [0-?]* from position i: the first position it does not take
RECURSIVE SkipParams(_, _)
SkipParams(t, i) == IF i <= Len(t) /\ IsParam(t[i]) THEN SkipParams(t, i + 1) ELSE i

\* [ -/]* from position i: the first position it does not take
RECURSIVE SkipIntermediates(_, _)
SkipIntermediates(t, i) ==
  IF i <= Len(t) /\ IsIntermediate(t[i]) THEN SkipIntermediates(t, i + 1) ELSE i

\* the length of the match of ansi_escape at position i of t, 0 if there is none; the three
\* classes of the second alternative are disjoint, so the greedy match is the only one
MatchLen(t, i) ==
  IF t[i] # ESC \/ i = Len(t) THEN 0
  ELSE IF IsFe(t[i + 1]) THEN 2
  ELSE IF t[i + 1] # "[" THEN 0
  ELSE LET j == SkipIntermediates(t, SkipParams(t, i + 2))
       IN IF j <= Len(t) /\ IsFinal(t[j]) THEN j - i + 1 ELSE 0

\* ansi_escape.sub('', t) from position i on
RECURSIVE StripFrom(_, _)
StripFrom(t, i) ==
  IF i > Len(t) THEN <<>>
  ELSE IF MatchLen(t, i) > 0 THEN StripFrom(t, i + MatchLen(t, i))
  ELSE <<t[i]>> \o StripFrom(t, i + 1)

\* NihilFormatter._strip_ansi
strip_ansi(t) == StripFrom(t, 1)

\* NihilFormatter._real_len
real_len(t) == Len(strip_ansi(t))

\* the prefix and the color of success, error, info and warning
Prefix(kind) ==
  CASE kind = "success" -> <<"[", "CHECK", "]", " ">>
    [] kind = "error" -> <<"[", "CROSS", "]", " ">>
    [] kind = "info" -> <<"[", "*", "]", " ">>
    [] kind = "warning" -> <<"[", "!", "]", " ">>

ColorOf(kind) ==
  CASE kind = "success" -> GREEN
    [] kind = "error" -> RED
    [] kind = "info" -> BLUE
    [] kind = "warning" -> YELLOW

MessageKinds == {"success", "error", "info", "warning"}

\* NihilFormatter.success / error / info / warning
message(use_colors, kind, t) == colorize(use_colors, Prefix(kind) \o t, ColorOf(kind))

\* the texts given to the formatter
TextChars == {"a", "m", "Z", "[", "1", ESC}
Texts == SeqsUpTo(TextChars, MaxTextLen)

FmtFrame ==
  UNCHANGED <<engineVars, histVars, pc, exit_code, exc, raised, interrupted, loopVars, calls,
              invVars, auxVars, err, req, err_text, peer, listing, listed, mreq, mres>>

\* NihilFormatter(use_colors)._colorize(t, c), then _strip_ansi and _real_len of the result
Colorize ==
  /\ fmt.op = "none"
  /\ \E use_colors \in BOOLEAN, t \in Texts, c \in Colors :
       LET out == colorize(use_colors, t, c)
       IN fmt' = [op |-> "colorize", use_colors |-> use_colors, t |-> t, c |-> c, out |-> out,
                  stripped |-> strip_ansi(out), real_len |-> real_len(out)]
  /\ FmtFrame

\* NihilFormatter(use_colors).success(t) / error / info / warning, then the same two
Message ==
  /\ fmt.op = "none"
  /\ \E use_colors \in BOOLEAN, kind \in MessageKinds, t \in Texts :
       LET out == message(use_colors, kind, t)
       IN fmt' = [op |-> kind, use_colors |-> use_colors, t |-> t, c |-> ColorOf(kind),
                  out |-> out, stripped |-> strip_ansi(out), real_len |-> real_len(out)]
  /\ FmtFrame

NextFmt == Colorize \/ Message

SpecFmt == InitErr /\ [][NextFmt]_vars

(***************************************************************************)
(* The listings on their own, over any listing of the engine.              *)
(***************************************************************************)
TagLists ==
  {<<>>, <<DEFAULT_IMAGE>>, <<UBUNTU_IMAGE>>, <<UBUNTU_IMAGE, "my-nihil:1">>, <<"nihi:l">>}

\* the container or image objects the engine may list
ListObjects ==
  [name : {"c"}, tags : TagLists, config_image : {"nihil-images:latest", UBUNTU_IMAGE},
   broken : BOOLEAN]

\* manager.list_containers()
ListContainers ==
  /\ listed.kind = "none"
  /\ \E o \in EngineOutcomes :
       listed' = [kind |-> "containers", outcome |-> o, result |-> list_containers(listing, o)]
  /\ UNCHANGED <<engineVars, histVars, pc, exit_code, exc, raised, interrupted, loopVars, calls,
                 invVars, auxVars, err, req, err_text, fmt, peer, listing, mreq, mres>>

\* manager.list_images()
ListImages ==
  /\ listed.kind = "none"
  /\ \E o \in EngineOutcomes :
       listed' = [kind |-> "images", outcome |-> o, result |-> list_images(listing, o)]
  /\ UNCHANGED <<engineVars, histVars, pc, exit_code, exc, raised, interrupted, loopVars, calls,
                 invVars, auxVars, err, req, err_text, fmt, peer, listing, mreq, mres>>

InitList ==
  /\ containers = [n \in Names |-> Absent]
  /\ images = {}
  /\ history = <<>>
  /\ InitInvocation
  /\ err = NoError
  /\ req = [cls |-> "none", args |-> [subject |-> "x", message |-> NONE, hint |-> NONE, exit_code |-> NoCode]]
  /\ err_text = NONE
  /\ fmt = NoFormat
  /\ peer = NoPeer
  /\ listing \in SeqsUpTo(ListObjects, MaxListLen)
  /\ listed = [kind |-> "none", outcome |-> "ok", result |-> <<>>]
  /\ mreq = NoRequest
  /\ mres = NoResult

NextList == ListContainers \/ ListImages

SpecList == InitList /\ [][NextList]_vars

(***************************************************************************)
(* The methods of NihilManager on their own, one call from any engine      *)
(* state.                                                                  *)
(***************************************************************************)
ImageArgs == {None, DEFAULT_IMAGE, UBUNTU_IMAGE}

VolumeArgs ==
  {NoVolumes,
   [none |-> FALSE, entries |-> {[host |-> "/data", bind |-> "/data", mode |-> "ro"]}],
   [none |-> FALSE, entries |-> {[host |-> "/tmp/test", bind |-> "/old", mode |-> "ro"]}]}

NetworkArgs == {None, "", "host"}

WorkspaceArgs == {None, "", "/tmp/test"}

\* the call and the engine state it starts from
Request(op, og) ==
  [NoRequest EXCEPT !.op = op, !.og = og, !.containers = containers, !.images = images]

MgrFrame ==
  UNCHANGED <<histVars, pc, exit_code, exc, raised, interrupted, loopVars, calls, invVars,
              auxVars, err, req, err_text, fmt, peer, listing, listed>>

\* NihilManager()
MgrInit ==
  /\ mreq.op = "none"
  /\ \E o \in EngineOutcomes :
       /\ mreq' = Request("connect", o)
       /\ mres' = [NoResult EXCEPT !.exc = manager_init(o),
                                   !.ret = IF manager_init(o) = NoExc THEN "manager" ELSE "raised",
                                   !.calls = <<<<"ping", "engine">>>>]
  /\ UNCHANGED engineVars
  /\ MgrFrame

\* manager.get_container(n)
MgrGet ==
  /\ mreq.op = "none"
  /\ \E n \in Names, o \in EngineOutcomes :
       LET r == get_container(containers, n, o)
       IN /\ mreq' = [Request("get_container", o) EXCEPT !.name = n]
          /\ mres' = [NoResult EXCEPT !.exc = r.exc,
                                      !.ret = IF r.exc # NoExc THEN "raised"
                                              ELSE IF r.found THEN "container" ELSE "None",
                                      !.calls = <<<<"get", n>>>>]
  /\ UNCHANGED engineVars
  /\ MgrFrame

\* manager.ensure_image_exists(image)
MgrEnsure ==
  /\ mreq.op = "none"
  /\ \E image \in ImageArgs, og \in EngineOutcomes, op \in EngineOutcomes :
       LET r == ensure_image_exists(images, image, og, op)
       IN /\ mreq' = [Request("ensure_image_exists", og) EXCEPT !.image = image, !.op2 = op]
          /\ mres' = [NoResult EXCEPT !.exc = r.exc, !.ret = r.ret, !.calls = r.calls]
          /\ images' = r.images
  /\ UNCHANGED containers
  /\ MgrFrame

\* manager.create_container(name, image, privileged, volumes, network_mode, workspace)
MgrCreate ==
  /\ mreq.op = "none"
  /\ \E n \in Names, image \in ImageArgs, privileged \in BOOLEAN, volumes \in VolumeArgs,
        network_mode \in NetworkArgs, workspace \in WorkspaceArgs,
        og \in EngineOutcomes, op \in EngineOutcomes, oc \in EngineOutcomes :
       LET r == create_container(containers, images, n, image, privileged, volumes, network_mode,
                                 workspace, og, op, oc)
       IN /\ mreq' = [Request("create_container", og) EXCEPT
                        !.name = n, !.image = image, !.privileged = privileged,
                        !.volumes = volumes, !.network_mode = network_mode,
                        !.workspace = workspace, !.op2 = op, !.oc = oc]
          /\ mres' = [exc |-> r.exc, ret |-> IF r.exc = NoExc THEN "container" ELSE "raised",
                      calls |-> r.calls, config |-> r.config]
          /\ containers' = r.containers
          /\ images' = r.images
  /\ MgrFrame

\* manager.start_container / stop_container / remove_container on a container the engine holds
MgrStart ==
  /\ mreq.op = "none"
  /\ \E n \in Names, o \in EngineOutcomes :
       /\ containers[n].status # "absent"
       /\ LET r == start_container(containers, n, o)
          IN /\ mreq' = [Request("start_container", o) EXCEPT !.name = n]
             /\ mres' = [NoResult EXCEPT !.exc = r.exc,
                                         !.ret = IF r.exc = NoExc THEN "True" ELSE "raised",
                                         !.calls = <<<<"start", n>>>>]
             /\ containers' = r.containers
  /\ UNCHANGED images
  /\ MgrFrame

MgrStop ==
  /\ mreq.op = "none"
  /\ \E n \in Names, o \in EngineOutcomes :
       /\ containers[n].status # "absent"
       /\ LET r == stop_container(containers, n, o)
          IN /\ mreq' = [Request("stop_container", o) EXCEPT !.name = n]
             /\ mres' = [NoResult EXCEPT !.exc = r.exc,
                                         !.ret = IF r.exc = NoExc THEN "True" ELSE "raised",
                                         !.calls = <<<<"stop", n>>>>]
             /\ containers' = r.containers
  /\ UNCHANGED images
  /\ MgrFrame

MgrRemove ==
  /\ mreq.op = "none"
  /\ \E n \in Names, force \in BOOLEAN, o \in EngineOutcomes :
       /\ containers[n].status # "absent"
       /\ LET r == remove_container(containers, n, force, o)
          IN /\ mreq' = [Request("remove_container", o) EXCEPT !.name = n, !.force = force]
             /\ mres' = [NoResult EXCEPT !.exc = r.exc,
                                         !.ret = IF r.exc = NoExc THEN "True" ELSE "raised",
                                         !.calls = <<<<"remove", n>>>>]
             /\ containers' = r.containers
  /\ UNCHANGED images
  /\ MgrFrame

\* manager.list_containers() / list_images() on the engine's own listing
MgrList ==
  /\ mreq.op = "none"
  /\ \E kind \in {"list_containers", "list_images"}, o \in EngineOutcomes :
       /\ mreq' = Request(kind, o)
       /\ mres' = [NoResult EXCEPT !.ret = "list", !.calls = <<<<kind, "engine">>>>]
       /\ listed' = [kind |-> IF kind = "list_containers" THEN "containers" ELSE "images",
                     outcome |-> o,
                     result |-> IF kind = "list_containers"
                                THEN list_containers(ContainerObjects(containers, images, NameOrder), o)
                                ELSE list_images(ImageObjects(images), o)]
  /\ UNCHANGED <<engineVars, histVars, pc, exit_code, exc, raised, interrupted, loopVars, calls,
                 invVars, auxVars, err, req, err_text, fmt, peer, listing>>

InitMgr ==
  /\ containers \in [Names -> InitContainerStates]
  /\ images \in SUBSET {DEFAULT_IMAGE, UBUNTU_IMAGE}
  /\ history = <<>>
  /\ InitInvocation
  /\ InitSide

NextMgr ==
  \/ MgrInit
  \/ MgrGet
  \/ MgrEnsure
  \/ MgrCreate
  \/ MgrStart
  \/ MgrStop
  \/ MgrRemove
  \/ MgrList

SpecMgr == InitMgr /\ [][NextMgr]_vars

(***************************************************************************)
(* Properties.                                                             *)
(***************************************************************************)
\* the exit code the taxonomy documents for each kind
ClaimedCode(cls) ==
  CASE cls = "DockerUnavailable" -> 2
    [] cls \in {"ImagePullFailed", "ImageNotFound"} -> 3
    [] cls = "ContainerNotFound" -> 4
    [] cls = "ContainerNotRunning" -> 5
    [] cls = "ContainerCreateFailed" -> 6
    [] cls = "ContainerStartFailed" -> 7
    [] cls = "ContainerStopFailed" -> 8
    [] cls = "ContainerRemoveFailed" -> 9
    [] cls = "ImageRemoveFailed" -> 10

ClaimedKinds ==
  {"DockerUnavailable", "ImagePullFailed", "ImageNotFound", "ContainerNotFound", "ContainerNotRunning",
   "ContainerCreateFailed", "ContainerStartFailed", "ContainerStopFailed", "ContainerRemoveFailed",
   "ImageRemoveFailed"}

\* a call that passes the arguments the kind's constructor takes
WellFormedCall(r) ==
  /\ r.args.exit_code = NoCode
  /\ r.cls = "DockerUnavailable" => r.args.message # NONE
  /\ r.cls \in {"ContainerNotFound", "ContainerNotRunning", "ContainerStartFailed",
                "ContainerStopFailed", "ContainerRemoveFailed", "ImageRemoveFailed"}
       => r.args.hint = NONE

\* C1: every error kind of the taxonomy can be constructed and carries its fixed exit code
\* (2, 3, 3, 4, 5, 6, 7, 8, 9, 10), whatever arguments its constructor is given.
C1_FixedExitCodes ==
  req.cls \in ClaimedKinds =>
    /\ err.exit_code \in {ClaimedCode(req.cls), NoCode}
    /\ WellFormedCall(req) => (err.cls = req.cls /\ err.exit_code = ClaimedCode(req.cls))

\* C1, the kinds nihilError.py defines: each carries its fixed exit code
C1_DefinedKindsFixed ==
  (req.cls \in ClaimedKinds \cap DefinedClasses) =>
    /\ err.exit_code \in {ClaimedCode(req.cls), NoCode}
    /\ WellFormedCall(req) => (err.cls = req.cls /\ err.exit_code = ClaimedCode(req.cls))

\* the pieces of a history line spell "nihil " and then av joined by single spaces
SpellsCommand(line, av) ==
  /\ Len(line) = 1 + (IF av = <<>> THEN 0 ELSE 2 * Len(av) - 1)
  /\ line[1] = "nihil "
  /\ \A j \in 1..Len(av) : line[2 * j] = av[j]
  /\ \A j \in 1..(Len(av) - 1) : line[2 * j + 1] = " "

\* C4: once an invocation has ended, and as long as no history write has failed, the log is
\* its initial content followed by one line per invocation so far, in invocation order, each
\* spelling "nihil " and the raw arguments of that invocation.
C4_OneLinePerInvocation ==
  (pc \in {"done", "exited"} /\ ~log_failed) =>
    /\ Len(history) = Len(InitialHistory) + invocations
    /\ SubSeq(history, 1, Len(InitialHistory)) = InitialHistory
    /\ \A i \in 1..invocations :
         Len(InitialHistory) + i <= Len(history)
           => SpellsCommand(history[Len(InitialHistory) + i], invoked[i])

\* the marker "nihil" occurs in text
MarkerIn(text) ==
  \E i \in 1..(Len(text) - 4) :
    /\ text[i] = "n" /\ text[i + 1] = "i" /\ text[i + 2] = "h"
    /\ text[i + 3] = "i" /\ text[i + 4] = "l"

\* obj has a tag that contains the marker
Tagged(obj) == \E k \in DOMAIN obj.tags : MarkerIn(Chars(obj.tags[k]))

\* r is l with some elements left out
RECURSIVE IsSubList(_, _)
IsSubList(r, l) ==
  IF r = <<>> THEN TRUE
  ELSE IF l = <<>> THEN FALSE
  ELSE IF Head(r) = Head(l) THEN IsSubList(Tail(r), Tail(l))
  ELSE IsSubList(r, Tail(l))

C10_ConfigImageFallback ==
  (listed.kind = "containers" /\ listed.outcome = "ok") =>
    \A k \in DOMAIN listing :
      (listing[k].tags = <<>> /\ ~listing[k].broken /\ MarkerIn(Chars(listing[k].config_image)))
        => \E j \in DOMAIN listed.result : listed.result[j] = listing[k]

\* the targets of the engine requests of kind op issued so far, in order
Requested(op) ==
  LET sel == SelectSeq(calls, LAMBDA c : c[1] = op)
  IN [k \in 1..Len(sel) |-> sel[k][2]]

\* C2: a `remove` of N named containers that reached its handler and met no failure other
\* than missing names and engine errors on stop or remove has looked up all N names in
\* order and exits with 0 if none failed, else with 1.
C2_RemoveProcessesAll ==
  (/\ pc = "done"
   /\ args.command = "remove"
   /\ args.names # <<>>
   /\ interrupted = "no"
   /\ exc.type # "Exception"
   /\ raised.cls # "DockerUnavailable")
  => /\ Requested("get") = args.names
     /\ exit_code \in {0, 1}
     /\ exit_code = 0 <=> (errors = 0 /\ raised = NoError)

\* C3: in `uninstall`, once the final confirmation is given, the loop starts at the first
\* image with no error counted; each round issues the removal of the current image, counts
\* it when it failed (the image set is unchanged) and moves to the next image whether or not
\* it failed; after the last image the command returns 0 if no removal failed, else 1.
C3_UninstallRemovesAll ==
  [][/\ (pc = "uninstall_confirm" /\ pc' = "uninstall_rmi") => (idx' = 1 /\ errors' = 0)
     /\ (pc = "uninstall_rmi" /\ pc' # "except") =>
          IF idx <= Len(targets)
          THEN /\ pc' = "uninstall_rmi"
               /\ idx' = idx + 1
               /\ targets' = targets
               /\ calls' = Append(calls, <<"remove_image", targets[idx]>>)
               /\ errors' = errors + (IF images' = images THEN 1 ELSE 0)
          ELSE /\ pc' = "log"
               /\ exit_code' = IF errors = 0 THEN 0 ELSE 1]_vars

\* C3 witness: two images, the first removal failed, the second was still issued and succeeded
C3_Witness ==
  /\ pc = "done"
  /\ args.command = "uninstall"
  /\ Len(targets) = 2
  /\ Requested("remove_image") = targets
  /\ targets[1] \in images
  /\ targets[2] \notin images
  /\ errors = 1
  /\ exit_code = 1

\* C5: a history write that fails (no line is appended) lets main() return normally with
\* the exit code the command had computed, and raises nothing.
C5_LogFailureSilent ==
  [][(pc = "log" /\ history' = history) =>
       (pc' = "done" /\ exit_code' = exit_code /\ exc' = exc)]_vars

\* C5 witness: the write failed after a command that computed exit code 8
C5_Witness ==
  /\ pc = "done"
  /\ log_failed
  /\ history = <<>>
  /\ exit_code = 8

\* C6: when no interrupt arrived, a NihilError that left the connection step or a handler
\* reaches the top level as it was created and its exit_code is the exit code; any other
\* exception that left a handler gives exit code 1.
C6_ErrorExitCode ==
  (pc \in {"log", "done"} /\ interrupted = "no") =>
    /\ raised # NoError => exit_code = raised.exit_code
    /\ exc.type = "NihilError" => exc.err = raised
    /\ exc.type = "Exception" => exit_code = 1

\* C6 witness: remove_container failed and the invocation ended with its code 9
C6_Witness ==
  /\ pc = "done"
  /\ exc.type = "NihilError"
  /\ raised.cls = "ContainerRemoveFailed"
  /\ exit_code = 9

\* C7 as stated: an interrupt in any phase ends the invocation with exit code 130.
C7_InterruptExit130 ==
  (pc \in {"log", "done"} /\ interrupted # "no") => exit_code = 130

\* C7 amended: an interrupt ends the invocation with exit code 130, except at an interactive
\* selection prompt, where the handler catches it: 1 for start, 0 for remove, install and
\* uninstall.
C7_InterruptExitCodes ==
  (pc \in {"log", "done"} /\ interrupted # "no") =>
    exit_code = IF interrupted = "start_select" THEN 1
                ELSE IF interrupted \in {"remove_select", "install_select", "uninstall_select"} THEN 0
                ELSE 130

\* C7 witness: the interrupt arrived at uninstall's final confirmation prompt
C7_Witness ==
  /\ pc = "done"
  /\ interrupted = "uninstall_confirm"
  /\ exit_code = 130

\* C8: doctor returns 0 exactly when the engine connection succeeded; otherwise it returns 2,
\* has not run the image check and has printed its report; with the connection up it returns
\* 0 whether the image was present, pulled, not pullable or not inspectable, and whatever
\* the runtime check said.
C8_DoctorExit ==
  /\ doc.returned # NoCode =>
       /\ doc.returned = 0 <=> doc.connected
       /\ doc.returned # 0 => (doc.returned = 2 /\ ~doc.image_checked /\ doc.printed)
  /\ (pc \in {"log", "done"} /\ args.command = "doctor" /\ interrupted = "no") =>
       /\ doc.image_outcome \in {"present", "pulled", "pull_failed", "inspect_error"}
            => (doc.returned = 0 /\ exit_code = 0)
       /\ (exc = NoExc /\ ~doc.connected) => (doc.returned = 2 /\ exit_code = 2)

\* C8 witness: the Python check failed, the pull failed, and doctor returned 0
C8_Witness ==
  /\ pc = "done"
  /\ doc.connected
  /\ doc.image_outcome = "pull_failed"
  /\ ~doc.results[1].ok
  /\ doc.returned = 0

\* the kinds of the engine requests issued so far, in order, among those in ops
Ops(ops) ==
  LET sel == SelectSeq(calls, LAMBDA c : c[1] \in ops)
  IN [k \in 1..Len(sel) |-> sel[k][1]]

Last(q) == q[Len(q)]

\* C11: `start <name> --privileged` on a name the engine does not hold takes the creation
\* path, and when it ends without any failure it has issued, on that name and in this order,
\* exactly one create, one start and then the session (none with --no-shell; with --log the
\* session is preceded by the mkdir run in the container), the container is privileged and
\* running, and the exit code is 0.
C11_StartCreatesThenStarts ==
  /\ [][(/\ pc = "start"
         /\ containers[args.names[1]].status = "absent"
         /\ pc' # "except")
        => (/\ pc' \in {"start_select", "start_create"}
            /\ Ops({"create", "start", "exec"})' = <<>>)]_vars
  /\ []((/\ pc = "done"
         /\ args.command = "start"
         /\ args.privileged
         /\ exc = NoExc
         /\ interrupted = "no"
         /\ Requested("create") # <<>>)
        => (/\ Requested("create") = <<args.names[1]>>
            /\ Requested("start") = <<args.names[1]>>
            /\ Ops({"create", "start", "exec"}) =
                 <<"create", "start">> \o (IF args.no_shell THEN <<>>
                                           ELSE IF args.log THEN <<"exec", "exec">>
                                           ELSE <<"exec">>)
            /\ \A k \in DOMAIN Requested("exec") : Requested("exec")[k] = args.names[1]
            /\ containers[args.names[1]].privileged
            /\ containers[args.names[1]].status = "running"
            /\ exit_code = 0))

\* C11 witness: a privileged container was created, started and entered
C11_Witness ==
  /\ pc = "done"
  /\ args.command = "start"
  /\ args.privileged
  /\ ~args.no_shell
  /\ Ops({"create", "start", "exec"}) = <<"create", "start", "exec">>
  /\ containers[args.names[1]].privileged
  /\ exit_code = 0

\* C12: `stop <name>` on a container that exists and is not running returns 0, issues no stop
\* and leaves the engine's containers as they were; on a running container it issues exactly
\* one stop, and returns 0 with the container stopped when that request succeeds.
C12_StopOnlyRunning ==
  [][/\ (/\ pc = "stop"
         /\ pc' # "except"
         /\ containers[args.names[1]].status \notin {"absent", "running"})
        => (/\ pc' = "log"
            /\ exit_code' = 0
            /\ containers' = containers
            /\ Requested("stop")' = <<>>)
     /\ (/\ pc = "stop"
         /\ pc' # "except"
         /\ containers[args.names[1]].status = "running")
        => (pc' = "stop_stop" /\ Requested("stop")' = <<>>)
     /\ (pc = "stop_stop" /\ pc' # "stop_stop" /\ interrupted' = "no")
        => (/\ Requested("stop")' = <<args.names[1]>>
            /\ exc' = NoExc => (/\ pc' = "log"
                               /\ exit_code' = 0
                               /\ containers'[args.names[1]].status = "exited"))]_vars

\* C12 witness: stop of a container that was not running
C12_Witness ==
  /\ pc = "done"
  /\ args.command = "stop"
  /\ Requested("get") = args.names
  /\ containers[args.names[1]].status = "exited"
  /\ Requested("stop") = <<>>
  /\ exit_code = 0

\* C13: `exec <name>` that looked the container up and met no engine error exits with 4 and spawns no session when the
\* engine holds no container of that name, and with 5 and no session when it holds one that
\* is not running.
C13_ExecTaxonomyCodes ==
  (/\ pc = "done"
   /\ args.command = "exec"
   /\ Requested("get") = <<args.names[1]>>
   /\ exc = NoExc
   /\ interrupted = "no")
  => /\ containers[args.names[1]].status = "absent"
          => (exit_code = 4 /\ Requested("exec") = <<>>)
     /\ containers[args.names[1]].status \notin {"absent", "running"}
          => (exit_code = 5 /\ Requested("exec") = <<>>)

\* positions inside a command handler
HandlerPositions ==
  {"info", "images", "completion", "start", "start_select", "start_create", "start_start",
   "start_shell", "stop", "stop_stop", "exec", "exec_run", "remove", "remove_select",
   "remove_get", "remove_stop", "remove_rm", "install", "install_select", "install_pull",
   "uninstall", "uninstall_select", "uninstall_scan", "uninstall_ask", "uninstall_rmc",
   "uninstall_confirm", "uninstall_rmi"}

\* C14: without a command and with `version` the result is 0 and no engine request is made;
\* `doctor` ends with what NihilDoctor.run returned; for every other command the connection
\* is the first engine request, a handler runs only after it succeeded, and when it failed
\* nothing else is requested and the exit code is 2.
C14_Dispatch ==
  /\ (/\ pc \in {"log", "done"}
      /\ args.exit = NoCode
      /\ args.command \in {None, "version"}
      /\ interrupted = "no")
     => (exit_code = 0 /\ calls = <<>>)
  /\ (/\ pc \in {"log", "done"}
      /\ args.command = "doctor"
      /\ exc = NoExc
      /\ interrupted = "no")
     => (doc.returned # NoCode /\ exit_code = doc.returned)
  /\ (args.exit = NoCode /\ args.command \notin {None, "unparsed", "version", "doctor"})
     => /\ calls # <<>> => calls[1] = <<"ping", "engine">>
        /\ pc \in HandlerPositions => (calls # <<>> /\ raised = NoError)
        /\ raised.cls = "DockerUnavailable"
             => (/\ calls = <<<<"ping", "engine">>>>
                 /\ pc \in {"log", "done"}
                 /\ exit_code = 2)

\* C14 witness: the connection failed for `remove a`
C14_Witness ==
  /\ pc = "done"
  /\ args.command = "remove"
  /\ raised.cls = "DockerUnavailable"
  /\ calls = <<<<"ping", "engine">>>>
  /\ exit_code = 2

\* C15: in `uninstall` an image removal is requested only after the final prompt was answered
\* y or yes (in any case); after end of input or an interrupt at either prompt no image
\* removal is requested, and at the first prompt no container removal either.
C15_NoRemovalWithoutYes ==
  /\ Requested("remove_image") # <<>>
       => (/\ answers # <<>>
           /\ Last(answers)[1] = "confirm"
           /\ Last(answers)[2] \in {"y", "Y", "yes", "Yes", "YES"})
  /\ (answers # <<>> /\ Last(answers)[2] = "EOF") => Requested("remove_image") = <<>>
  /\ interrupted \in {"uninstall_ask", "uninstall_confirm"} => Requested("remove_image") = <<>>
  /\ (answers # <<>> /\ Last(answers) = <<"remove_containers", "EOF">>)
       => Requested("remove") = <<>>
  /\ interrupted = "uninstall_ask" => Requested("remove") = <<>>

\* C15 witness: the containers were removed on "y", then input ended at the final prompt
C15_Witness ==
  /\ pc = "done"
  /\ answers = <<<<"remove_containers", "y">>, <<"confirm", "EOF">>>>
  /\ Requested("remove") # <<>>
  /\ Requested("remove_image") = <<>>
  /\ exit_code = 0

\* the reference a call without image falls back to
RefOf(image) == IF image = None THEN DEFAULT_IMAGE ELSE image

\* the targets of the requests of kind op the method called on its own issued, in order
Issued(op) ==
  LET sel == SelectSeq(mres.calls, LAMBDA c : c[1] = op)
  IN [k \in 1..Len(sel) |-> sel[k][2]]

\* C16: create_container issues the engine's create request only as its last request, after
\* the lookup (and, if the image was absent, the successful pull) of the same image, which the
\* engine then holds; when the image is absent and the pull fails the call raises
\* ImagePullFailed (exit code 3), issues no create request and creates nothing.
C16_ImageBeforeCreate ==
  mreq.op = "create_container" =>
    LET ref == RefOf(mreq.image)
    IN /\ Issued("create") # <<>>
            => (/\ Issued("create") = <<mreq.name>>
                /\ Last(mres.calls)[1] = "create"
                /\ mres.calls[1] = <<"image_get", ref>>
                /\ mreq.og = "ok"
                /\ ref \in images
                /\ ref \notin mreq.images
                     => (mres.calls[2] = <<"pull", ref>> /\ mreq.op2 = "ok"))
       /\ (ref \notin mreq.images /\ mreq.og = "ok" /\ mreq.op2 # "ok")
            => (/\ mres.exc.type = "NihilError"
                /\ mres.exc.err.cls = "ImagePullFailed"
                /\ mres.exc.err.exit_code = 3
                /\ Issued("create") = <<>>
                /\ containers = mreq.containers)

\* C16 witness: the image was absent and the pull failed
C16_Witness ==
  /\ mreq.op = "create_container"
  /\ RefOf(mreq.image) \notin mreq.images
  /\ mreq.og = "ok"
  /\ mreq.op2 # "ok"
  /\ mres.exc.err.cls = "ImagePullFailed"
  /\ Issued("pull") = <<RefOf(mreq.image)>>

\* C17: ensure_image_exists(ref) whose lookup is answered returns True without a pull when
\* the image is present; when it is absent it issues exactly one pull, of ref, and returns
\* True (the image now present) if the pull succeeds, and raises ImagePullFailed, returning
\* nothing, if the pull fails.
C17_EnsureImage ==
  (mreq.op = "ensure_image_exists" /\ mreq.og = "ok") =>
    LET ref == RefOf(mreq.image)
    IN /\ ref \in mreq.images
            => (mres.ret = "True" /\ mres.exc = NoExc /\ Issued("pull") = <<>>)
       /\ ref \notin mreq.images
            => (/\ Issued("pull") = <<ref>>
                /\ mreq.op2 = "ok" => (mres.ret = "True" /\ mres.exc = NoExc /\ ref \in images)
                /\ mreq.op2 # "ok" => (/\ mres.ret = "raised"
                                       /\ mres.exc.type = "NihilError"
                                       /\ mres.exc.err.cls = "ImagePullFailed"
                                       /\ images = mreq.images))

\* C17 witness: the image was absent and one pull brought it
C17_Witness ==
  /\ mreq.op = "ensure_image_exists"
  /\ mreq.image = UBUNTU_IMAGE
  /\ UBUNTU_IMAGE \notin mreq.images
  /\ Issued("pull") = <<UBUNTU_IMAGE>>
  /\ mres.ret = "True"
  /\ UBUNTU_IMAGE \in images

\* C18: create_container(name) with defaults sends a create request with name = name,
\* image = DEFAULT_IMAGE, detach, tty and stdin_open true, privileged false and hostname = name.
C18_CreateDefaults ==
  (/\ mreq.op = "create_container"
   /\ mreq.image = None
   /\ ~mreq.privileged
   /\ mreq.volumes = NoVolumes
   /\ mreq.network_mode = None
   /\ mreq.workspace = None
   /\ Issued("create") # <<>>)
  => LET config == mres.config
     IN /\ {"name", "image", "detach", "tty", "stdin_open", "privileged"} \subseteq config.keys
        /\ config.name = mreq.name
        /\ config.image = DEFAULT_IMAGE
        /\ config.detach
        /\ config.tty
        /\ config.stdin_open
        /\ ~config.privileged
        /\ "hostname" \in config.keys
        /\ config.hostname = mreq.name

\* C19: the create request holds the entry workspace -> {bind "/workspace", mode "rw"} (and
\* no other entry for that path) exactly when a workspace path is given, otherwise just the
\* volumes passed in; it holds network_mode exactly when one is given, with that value; and
\* its privileged is the argument.  None and the empty string count as not given.
C19_VolumesNetworkPrivileged ==
  (mreq.op = "create_container" /\ Issued("create") # <<>>) =>
    LET config == mres.config
        passed == IF mreq.volumes.none THEN {} ELSE mreq.volumes.entries
        workspace == mreq.workspace
    IN /\ workspace \notin {None, ""}
            => (/\ "volumes" \in config.keys
                /\ {e \in config.volumes : e.host = workspace}
                     = {[host |-> workspace, bind |-> "/workspace", mode |-> "rw"]}
                /\ {e \in config.volumes : e.host # workspace}
                     = {e \in passed : e.host # workspace})
       /\ workspace \in {None, ""}
            => (/\ config.volumes = passed
                /\ "volumes" \in config.keys <=> passed # {})
       /\ "network_mode" \in config.keys <=> mreq.network_mode \notin {None, ""}
       /\ "network_mode" \in config.keys => config.network_mode = mreq.network_mode
       /\ config.privileged = mreq.privileged

\* C19 witness: a privileged container with a workspace and a network mode
C19_Witness ==
  /\ mreq.op = "create_container"
  /\ mreq.workspace = "/tmp/test"
  /\ mreq.network_mode = "host"
  /\ mreq.privileged
  /\ {"volumes", "network_mode"} \subseteq mres.config.keys
  /\ mres.ret = "container"

\* the engine raised an error other than not-found during the call
EngineRaised ==
  \/ mreq.op \in {"connect", "get_container", "start_container", "stop_container",
                  "list_containers", "list_images"} /\ mreq.og # "ok"
  \/ mreq.op = "remove_container"
       /\ (mreq.og # "ok" \/ (mreq.containers[mreq.name].status = "running" /\ ~mreq.force))
  \/ mreq.op \in {"ensure_image_exists", "create_container"}
       /\ (mreq.og # "ok" \/ (Issued("pull") # <<>> /\ mreq.op2 # "ok"))
  \/ mreq.op = "create_container"
       /\ Issued("create") # <<>>
       /\ (mreq.oc # "ok" \/ mreq.containers[mreq.name].status # "absent")

\* the exit code of the kind that matches the request that failed
MatchingCode(request) ==
  CASE request = "ping" -> 2
    [] request \in {"image_get", "pull"} -> 3
    [] request = "create" -> 6
    [] request = "start" -> 7
    [] request = "stop" -> 8
    [] request = "remove" -> 9
    [] OTHER -> NoCode

\* C20: whenever the engine raises during a method of NihilManager, the method raises a
\* NihilError, of the kind that matches the failed request where the taxonomy has one
\* (connect 2, pull 3, create 6, start 7, stop 8, remove 9); it neither lets the engine's
\* exception through nor returns normally.
C20_TypedErrors ==
  (mreq.op # "none" /\ EngineRaised) =>
    /\ mres.ret = "raised"
    /\ mres.exc.type = "NihilError"
    /\ MatchingCode(Last(mres.calls)[1]) # NoCode
         => mres.exc.err.exit_code = MatchingCode(Last(mres.calls)[1])

\* C21: a pull, create, start, stop or remove request the engine refused is not issued again
\* on the same target in the same invocation, and an invocation (other than `doctor`, which
\* reports in its table) in which such a request was refused does not end with exit code 0.
C21_NoReissueAndSurfaces ==
  /\ [][\A k \in (Len(calls) + 1)..Len(calls') : calls'[k] \notin Range(failures)]_vars
  /\ []((pc \in {"log", "done"} /\ args.command # "doctor" /\ failures # <<>>)
          => exit_code \notin {0, NoCode})

\* C22: once `exec` or the session of `start` has run a command in the container, the
\* invocation ends with exit code 0 whatever exit status that command had.
C22_SessionStatusDropped ==
  returncode # NoCode =>
    /\ args.command \in {"exec", "start"}
    /\ Requested("exec") # <<>>
    /\ pc \in {"log", "done"}
    /\ exit_code = 0

\* C22 witness: `exec a` ran a command that ended with status 127, and the invocation with 0
C22_Witness ==
  /\ pc = "done"
  /\ args.command = "exec"
  /\ containers[args.names[1]].status = "running"
  /\ returncode = 127
  /\ exit_code = 0

\* C23: an `install` whose pull the engine refused signals ImagePullFailed and ends with
\* exit code 3.
C23_InstallPullFailed ==
  (/\ pc \in {"log", "done"}
   /\ args.command = "install"
   /\ failures # <<>>
   /\ Last(failures)[1] = "pull")
    => (raised.cls = "ImagePullFailed" /\ exit_code = 3)

\* the hint DockerUnavailable falls back to
DefaultDockerHint ==
  <<"Verifie que Docker tourne et que ton utilisateur a acces au socket Docker.">>

\* C24: the text of a NihilError is its message when it has no hint (None or empty) and
\* message + "\nHint: " + hint when it has one; a DockerUnavailable always has a non-empty
\* hint, the one passed if one was passed and the default one otherwise.
C24_ErrorText ==
  err.cls \in DefinedClasses =>
    /\ err.hint \in {NONE, <<>>} => err_text = err.message
    /\ err.hint \notin {NONE, <<>>} => err_text = err.message \o <<"\nHint: ">> \o err.hint
    /\ err.cls = "DockerUnavailable" =>
         /\ err.hint \notin {NONE, <<>>}
         /\ req.args.hint \notin {NONE, <<>>} => err.hint = req.args.hint
         /\ req.args.hint \in {NONE, <<>>} => err.hint = DefaultDockerHint

\* C24 witness: a DockerUnavailable built with a hint of its own
C24_Witness ==
  /\ err.cls = "DockerUnavailable"
  /\ req.args.hint = <<"h">>
  /\ err_text = <<"m", "\nHint: ", "h">>

\* t holds no escape sequence: ansi_escape matches nowhere in it
NoSequences(t) == \A i \in 1..Len(t) : MatchLen(t, i) = 0

\* C25: for a text t without escape sequences: without colors _colorize(t, c) is t and
\* success, error, info and warning give their prefix followed by t, with no escape
\* sequence; with colors _strip_ansi gives t back from _colorize(t, c) and _real_len of the
\* colored text is the length of t.
C25_ColorizeStrip ==
  (fmt.op # "none" /\ NoSequences(fmt.t)) =>
    /\ (fmt.op = "colorize" /\ ~fmt.use_colors) => fmt.out = fmt.t
    /\ (fmt.op \in MessageKinds /\ ~fmt.use_colors)
         => (fmt.out = Prefix(fmt.op) \o fmt.t /\ NoSequences(fmt.out))
    /\ (fmt.op = "colorize" /\ fmt.use_colors)
         => (/\ fmt.out # fmt.t
             /\ fmt.stripped = fmt.t
             /\ fmt.real_len = Len(fmt.t))

\* C25 witness: a text of bracket, digit and letter was colored in red and stripped again
C25_Witness ==
  /\ fmt.op = "colorize"
  /\ fmt.use_colors
  /\ fmt.c = RED
  /\ fmt.t = <<"[", "1", "m">>
  /\ fmt.out = RED \o <<"[", "1", "m">> \o RESET
  /\ fmt.stripped = <<"[", "1", "m">>
  /\ fmt.real_len = 3

\* this invocation's create request on the container it works on succeeded
CreatedHere == <<"create", cur>> \in Range(calls) /\ <<"create", cur>> \notin Range(failures)

\* the interrupt arrived before the start request, or the start request failed
NotStarted == interrupted = "start_start" \/ <<"start", cur>> \in Range(failures)

\* C26: a `start` that created the container and was then interrupted before its start
\* request, or whose start request failed, issues no stop and no remove and leaves the
\* container in the engine, created and not running; a `start` that finds a container that
\* exists and is not running issues no create and goes on to start it, and a create is only
\* ever requested for a name the engine does not hold.
C26_NoCleanupThenReuse ==
  /\ []((args.command = "start" /\ CreatedHere /\ NotStarted)
          => (/\ Requested("stop") = <<>>
              /\ Requested("remove") = <<>>
              /\ containers[cur].status = "created"))
  /\ [][/\ Len(Requested("create")') > Len(Requested("create"))
            => containers[cur].status = "absent"
        /\ (/\ pc = "start"
            /\ containers[args.names[1]].status \notin {"absent", "running"}
            /\ pc' # "except")
            => (pc' = "start_start" /\ Requested("create")' = <<>> /\ containers' = containers)
        /\ (pc = "start_start" /\ pc' = "start_shell")
            => (/\ Last(calls') = <<"start", cur>>
                /\ Requested("create")' = Requested("create")
                /\ containers'[cur].status = "running")]_vars

\* C26 witness: the first `start a` created the container and was interrupted; the second
\* found it, issued no create, started it and ended with 0
C26_Witness ==
  /\ invocations = 2
  /\ exit_codes = <<130>>
  /\ invoked[1][2] = "a"
  /\ invoked[2][2] = "a"
  /\ pc = "done"
  /\ Requested("create") = <<>>
  /\ Requested("start") = <<"a">>
  /\ containers["a"].status = "running"
  /\ exit_code = 0

\* the create request of the invocation of the variables was rejected
CreateRejectedHere == args.command = "start" /\ <<"create", cur>> \in Range(failures)

\* the create request of the peer was rejected
CreateRejectedPeer == peer.name # None /\ <<"create", peer.name>> \in Range(peer.failures)

\* the requests of kind op among the peer's
PeerRequested(op) == SelectSeq(peer.calls, LAMBDA c : c[1] = op)

\* C27: of two `start` invocations that run at the same time, the one whose create request
\* is rejected issues no start request and opens no session, and ends with exit code 6; when
\* the other's create request on the same name succeeded, the container the engine holds
\* under that name is the one the other created.
C27_ConcurrentStart ==
  /\ CreateRejectedHere
       => (/\ Requested("start") = <<>>
           /\ Requested("exec") = <<>>
           /\ pc \in {"log", "done"} => exit_code = 6
           /\ (/\ peer.name = cur
               /\ <<"create", cur>> \in Range(peer.calls)
               /\ ~CreateRejectedPeer)
                => (/\ containers[cur].status # "absent"
                    /\ containers[cur].privileged = peer.privileged
                    /\ containers[cur].image = AVAILABLE_IMAGES("base")))
  /\ CreateRejectedPeer
       => (/\ PeerRequested("start") = <<>>
           /\ PeerRequested("exec") = <<>>
           /\ peer.pc = "done" => peer.exit_code = 6
           /\ (/\ args.command = "start"
               /\ cur = peer.name
               /\ <<"create", cur>> \in Range(calls)
               /\ ~CreateRejectedHere)
                => (/\ containers[cur].status # "absent"
                    /\ containers[cur].privileged = args.privileged
                    /\ containers[cur].image = AVAILABLE_IMAGES(image_arg)))

\* C27 witness: both invocations of `start a` saw no container and requested a create; the
\* peer's was accepted and it went on to its session, the other one ended with 6 having
\* issued no start request, and the engine holds the peer's unprivileged container
C27_Witness ==
  /\ args.command = "start"
  /\ args.privileged
  /\ pc = "done"
  /\ exit_code = 6
  /\ Requested("get") = <<"a">>
  /\ Requested("create") = <<"a">>
  /\ Requested("start") = <<>>
  /\ peer.pc = "done"
  /\ peer.exit_code = 0
  /\ peer.name = "a"
  /\ ~peer.privileged
  /\ PeerRequested("create") = <<<<"create", "a">>>>
  /\ PeerRequested("start") = <<<<"start", "a">>>>
  /\ containers["a"].status = "running"
  /\ ~containers["a"].privileged

\* C28: while a `start` works on a name the engine holds, no create request is issued, the
\* container keeps its privileged flag and its image and can only go from not running to
\* running, and no start request is issued on it while it runs; the lookup of a container
\* that exists leads to the session when it runs and to the start request when it does not;
\* and a `start` that looked up an existing name and ends without a failure or an interrupt
\* leaves the container running, has opened the session unless --no-shell, and returns 0.
C28_StartExistingFrame ==
  /\ [][(args.command = "start" /\ containers[args.names[1]].status # "absent")
          => LET n == args.names[1]
             IN /\ Requested("create")' = Requested("create")
                /\ containers'[n].privileged = containers[n].privileged
                /\ containers'[n].image = containers[n].image
                /\ containers'[n].status \in {containers[n].status, "running"}
                /\ containers[n].status = "running" => Requested("start")' = Requested("start")
                /\ (pc = "start" /\ pc' # "except")
                     => (/\ pc' = IF containers[n].status = "running" THEN "start_shell"
                                  ELSE "start_start"
                         /\ calls' = Append(calls, <<"get", n>>))]_vars
  /\ []((/\ pc = "done"
         /\ args.command = "start"
         /\ Requested("get") # <<>>
         /\ Requested("create") = <<>>
         /\ containers[args.names[1]].status # "absent"
         /\ exc = NoExc
         /\ interrupted = "no")
        => (/\ exit_code = 0
            /\ containers[args.names[1]].status = "running"
            /\ Len(Requested("start")) <= 1
            /\ Requested("exec") # <<>> <=> ~args.no_shell))

\* C28 witness: `start --privileged --image=ad` on a running, unprivileged container made from
\* the default image issued neither create nor start, left the container as it was, opened
\* the session and returned 0
C28_Witness ==
  /\ pc = "done"
  /\ args.command = "start"
  /\ args.privileged
  /\ args.image = "ad"
  /\ ~args.no_shell
  /\ Ops({"get", "create", "start", "exec"}) = <<"get", "exec">>
  /\ containers[args.names[1]].status = "running"
  /\ ~containers[args.names[1]].privileged
  /\ containers[args.names[1]].image = DEFAULT_IMAGE
  /\ exit_code = 0

\* the engine request issued by the step, NoCall if the step issued none or several
NoCall == <<"none", "none">>

Asked == IF Len(calls') = Len(calls) + 1 THEN Last(calls') ELSE NoCall

\* C29: in `remove`, a target found running is stopped before anything else is asked of it;
\* a remove request on a target directly follows its lookup or its accepted stop request and
\* is never issued on a container that runs; stop requests go to running targets only; and
\* the containers that are not among the targets are left as they are.
C29_RemoveStopsFirst ==
  [][args.command = "remove"
      => (/\ (pc = "remove_get" /\ pc' \in {"remove_stop", "remove_rm"})
               => (/\ cur' = targets[idx]
                   /\ containers[cur'].status # "absent"
                   /\ pc' = "remove_stop" <=> containers[cur'].status = "running")
          /\ Asked[1] = "stop"
               => (/\ Asked[2] \in Range(targets)
                   /\ Last(calls) = <<"get", Asked[2]>>
                   /\ containers[Asked[2]].status = "running")
          /\ Asked[1] = "remove"
               => (/\ Asked[2] \in Range(targets)
                   /\ containers[Asked[2]].status \notin {"absent", "running"}
                   /\ \/ Last(calls) = <<"get", Asked[2]>>
                      \/ /\ Last(calls) = <<"stop", Asked[2]>>
                         /\ <<"stop", Asked[2]>> \notin Range(failures))
          /\ Asked[1] \notin {"stop", "remove"} => containers' = containers
          /\ \A n \in Names \ Range(targets') : containers'[n] = containers[n])]_vars

\* C29 witness: `remove a` without --force while a and b run: a was looked up, stopped and
\* then removed, b still runs
C29_Witness ==
  /\ pc = "done"
  /\ args.command = "remove"
  /\ ~args.force
  /\ targets = <<"a">>
  /\ calls = <<<<"ping", "engine">>, <<"get", "a">>, <<"stop", "a">>, <<"remove", "a">>>>
  /\ containers["a"].status = "absent"
  /\ containers["b"].status = "running"
  /\ exit_code = 0

\* uninstall ended without asking for the removal of any image because the user's last answer
\* was not a yes: "Aborted." and 0 at the final prompt, the refusal and 1 at the first one
UninstallDeclined ==
  /\ args.command = "uninstall"
  /\ pc \in {"log", "done"}
  /\ answers # <<>>
  /\ ~Confirmed(Last(answers)[2])
  /\ Requested("remove_image") = <<>>

\* the engine's containers are as they were before the invocation: uninstall only stops
\* containers it found running and removes containers it found, and starts or creates none,
\* so this is the case exactly when every container it asked to stop still runs and every
\* container it asked to remove is still there
ContainersUntouched ==
  \A k \in DOMAIN calls :
    /\ calls[k][1] = "stop" => containers[calls[k][2]].status = "running"
    /\ calls[k][1] = "remove" => containers[calls[k][2]].status # "absent"

\* C30: whenever uninstall ends without having removed any image because the user did not
\* confirm, the engine's containers and their states are the same as before the invocation.
C30_DeclinedUninstallKeepsContainers == UninstallDeclined => ContainersUntouched


====
